---- MODULE Spec2Model ----
(***************************************************************************)
(* State-machine models of the data-structure cores of the repository:     *)
(* the Robin-Hood hash table, the chained hash table, the dynamic array,   *)
(* the LRU cache, the Duan et al. SSSP engine and the modular checksum.    *)
(* The cores share no state, so each has its own variable and its own      *)
(* specification; the variables of the other cores stay at their initial   *)
(* value.                                                                  *)
(***************************************************************************)
EXTENDS Integers, Sequences, FiniteSets, TLC

VARIABLES rh, vec, lru, cht, pods, mpods, duan, dmsy, caches, basecase, checksum

vars == <<rh, vec, lru, cht, pods, mpods, duan, dmsy, caches, basecase, checksum>>

\* the variables each core leaves alone
notRH == <<vec, lru, cht, pods, mpods, duan, dmsy, caches, basecase, checksum>>
notVec == <<rh, lru, cht, pods, mpods, duan, dmsy, caches, basecase, checksum>>
notLRU == <<rh, vec, cht, pods, mpods, duan, dmsy, caches, basecase, checksum>>
notCHT == <<rh, vec, lru, pods, mpods, duan, dmsy, caches, basecase, checksum>>
notPODS == <<rh, vec, lru, cht, mpods, duan, dmsy, caches, basecase, checksum>>
notMPODS == <<rh, vec, lru, cht, pods, duan, dmsy, caches, basecase, checksum>>
notDuan == <<rh, vec, lru, cht, pods, mpods, dmsy, caches, basecase, checksum>>
notDMSY == <<rh, vec, lru, cht, pods, mpods, duan, caches, basecase, checksum>>
notCaches == <<rh, vec, lru, cht, pods, mpods, duan, dmsy, basecase, checksum>>
notBaseCase == <<rh, vec, lru, cht, pods, mpods, duan, dmsy, caches, checksum>>
notChecksum == <<rh, vec, lru, cht, pods, mpods, duan, dmsy, caches, basecase>>

Min2(a, b) == IF a < b THEN a ELSE b
Max2(a, b) == IF a < b THEN b ELSE a

(***************************************************************************)
(* 64-bit unsigned arithmetic on little-endian byte tuples (1 = low byte), *)
(* so that no intermediate value leaves the 32-bit integers of TLC.        *)
(***************************************************************************)
RECURSIVE ByteXor(_, _)
ByteXor(x, y) ==
    IF x = 0 /\ y = 0 THEN 0
    ELSE (((x % 2) + (y % 2)) % 2) + 2 * ByteXor(x \div 2, y \div 2)

RECURSIVE Pow2(_)
Pow2(e) == IF e = 0 THEN 1 ELSE 2 * Pow2(e - 1)

RECURSIVE NatByte(_, _)
NatByte(n, i) == IF i = 1 THEN n % 256 ELSE NatByte(n \div 256, i - 1)

U64OfNat(n) == [i \in 1..8 |-> NatByte(n, i)]

U64Xor(a, b) == [i \in 1..8 |-> ByteXor(a[i], b[i])]

U64Shr(a, s) ==
    LET q == s \div 8
        r == s % 8
        At(i) == IF i <= 8 THEN a[i] ELSE 0
    IN [i \in 1..8 |-> (At(i + q) \div Pow2(r)) + ((At(i + q + 1) % Pow2(r)) * Pow2(8 - r))]

U64Shl(a, s) ==
    LET q == s \div 8
        r == s % 8
        At(i) == IF i >= 1 THEN a[i] ELSE 0
    IN [i \in 1..8 |-> ((At(i - q) * Pow2(r)) % 256) + (At(i - q - 1) \div Pow2(8 - r))]

\* a mod m for a small divisor m
RECURSIVE U64ModFrom(_, _, _, _)
U64ModFrom(a, m, i, r) == IF i = 0 THEN r ELSE U64ModFrom(a, m, i - 1, (r * 256 + a[i]) % m)
U64Mod(a, m) == U64ModFrom(a, m, 8, 0)

U64Add(a, b) ==
    LET c[i \in 0..8] == IF i = 0 THEN 0 ELSE (a[i] + b[i] + c[i - 1]) \div 256
    IN [i \in 1..8 |-> (a[i] + b[i] + c[i - 1]) % 256]

RECURSIVE ColSum(_, _, _, _)
ColSum(a, b, k, i) ==
    IF i > k THEN 0 ELSE a[i] * b[k + 1 - i] + ColSum(a, b, k, i + 1)

U64Mul(a, b) ==
    LET t[k \in 0..8] == IF k = 0 THEN 0 ELSE ColSum(a, b, k, 1) + (t[k - 1] \div 256)
    IN [k \in 1..8 |-> t[k] % 256]

\* 0x9e3779b97f4a7c15, 0xbf58476d1ce4e5b9, 0x94d049bb133111eb
SM_GAMMA == <<21, 124, 74, 127, 185, 121, 55, 158>>
SM_MUL1 == <<185, 229, 228, 28, 109, 71, 88, 191>>
SM_MUL2 == <<235, 17, 49, 19, 187, 73, 208, 148>>

splitmix64_hash(key) ==
    LET z0 == U64Add(U64OfNat(key), SM_GAMMA)
        z1 == U64Mul(U64Xor(z0, U64Shr(z0, 30)), SM_MUL1)
        z2 == U64Mul(U64Xor(z1, U64Shr(z1, 27)), SM_MUL2)
    IN U64Xor(z2, U64Shr(z2, 31))

(***************************************************************************)
(* Robin-Hood hash table (robin_hood_table.h), integer keys.               *)
(***************************************************************************)
\* log2 of the table's Capacity template parameter in the model
RHCapBits == 2
Capacity == Pow2(RHCapBits)
\* keys 1..RHMaxKey and values 1..RHMaxVal are offered to put
RHMaxKey == 5
RHMaxVal == 2
RHKeys == 1..RHMaxKey
RHVals == 1..RHMaxVal

PD_SATURATION == 255
BUCKET_EMPTY == 0
BUCKET_OCCUPIED == 1

\* hash & INDEX_MASK with INDEX_MASK = Capacity - 1, Capacity a power of two <= 256
compute_bucket_index_of(key) == splitmix64_hash(key)[1] % Capacity
IdealIndex == [k \in RHKeys |-> compute_bucket_index_of(k)]
compute_bucket_index(key) == IdealIndex[key]

NextIdx(idx) == (idx + 1) % Capacity
SatInc(distance) == IF distance < PD_SATURATION THEN distance + 1 ELSE distance

\* the constructor sets state and probe_distance only; key and value hold 0 here
RHEmptyBuckets ==
    [i \in 0..(Capacity - 1) |-> [key |-> 0, value |-> 0, state |-> BUCKET_EMPTY, probe_distance |-> 0]]

\* the loop of insert_with_displacement; returns [ok, buckets]
RECURSIVE InsertLoop(_, _, _, _, _, _)
InsertLoop(b, idx, key, value, distance, iterations) ==
    IF iterations >= Capacity THEN [ok |-> FALSE, buckets |-> b]
    ELSE IF b[idx].state # BUCKET_OCCUPIED
    THEN [ok |-> TRUE,
          buckets |-> [b EXCEPT ![idx] = [key |-> key, value |-> value,
                                          state |-> BUCKET_OCCUPIED, probe_distance |-> distance]]]
    ELSE IF distance > b[idx].probe_distance
    THEN InsertLoop([b EXCEPT ![idx] = [key |-> key, value |-> value,
                                        state |-> BUCKET_OCCUPIED, probe_distance |-> distance]],
                    NextIdx(idx), b[idx].key, b[idx].value,
                    SatInc(b[idx].probe_distance), iterations + 1)
    ELSE InsertLoop(b, NextIdx(idx), key, value, SatInc(distance), iterations + 1)

\* the loop with a swap that leaves the distances where they are: the displaced
\* entry goes on with the distance of the entry that took its bucket
RECURSIVE InsertLoopKeepingDistance(_, _, _, _, _, _)
InsertLoopKeepingDistance(b, idx, key, value, distance, iterations) ==
    IF iterations >= Capacity THEN [ok |-> FALSE, buckets |-> b]
    ELSE IF b[idx].state # BUCKET_OCCUPIED
    THEN [ok |-> TRUE,
          buckets |-> [b EXCEPT ![idx] = [key |-> key, value |-> value,
                                          state |-> BUCKET_OCCUPIED, probe_distance |-> distance]]]
    ELSE IF distance > b[idx].probe_distance
    THEN InsertLoopKeepingDistance(
             [b EXCEPT ![idx] = [key |-> key, value |-> value,
                                 state |-> BUCKET_OCCUPIED, probe_distance |-> distance]],
             NextIdx(idx), b[idx].key, b[idx].value, SatInc(distance), iterations + 1)
    ELSE InsertLoopKeepingDistance(b, NextIdx(idx), key, value, SatInc(distance),
                                   iterations + 1)

insert_keeping_distance(b, idx, key, value, distance) ==
    InsertLoopKeepingDistance(b, idx, key, value, distance, 0)

insert_with_displacement(b, idx, key, value, distance) ==
    InsertLoop(b, idx, key, value, distance, 0)

\* the duplicate-check loop of put: the index holding key, or -1 when the loop
\* leaves without finding it
RECURSIVE PutScan(_, _, _, _)
PutScan(b, probe_idx, distance, key) ==
    IF b[probe_idx].state # BUCKET_OCCUPIED THEN -1
    ELSE IF b[probe_idx].probe_distance < distance THEN -1
    ELSE IF b[probe_idx].key = key THEN probe_idx
    ELSE PutScan(b, NextIdx(probe_idx), SatInc(distance), key)

\* put: [ret, buckets, size]
RHPutResult(b, size, key, value) ==
    LET idx == compute_bucket_index(key)
        hit == PutScan(b, idx, 0, key)
    IN IF hit # -1
       THEN [ret |-> FALSE, buckets |-> [b EXCEPT ![hit].value = value], size |-> size]
       ELSE LET r == insert_with_displacement(b, idx, key, value, 0)
            IN IF ~r.ok
               THEN [ret |-> FALSE, buckets |-> r.buckets, size |-> size]
               ELSE [ret |-> TRUE, buckets |-> r.buckets, size |-> size + 1]

\* get: the value found, or 0 for nullptr
RECURSIVE GetScan(_, _, _, _)
GetScan(b, idx, distance, key) ==
    IF b[idx].state # BUCKET_OCCUPIED THEN 0
    ELSE IF distance > b[idx].probe_distance THEN 0
    ELSE IF b[idx].key = key THEN b[idx].value
    ELSE GetScan(b, NextIdx(idx), SatInc(distance), key)

RHGet(b, key) == GetScan(b, compute_bucket_index(key), 0, key)

\* rh.buckets, rh.size: the table.  The other fields record the history the
\* claims speak about: the keys whose put returned true, the value of the most
\* recent put of each key (0: none), and the last call with the table before it.
RHNew ==
    [buckets |-> RHEmptyBuckets, size |-> 0,
     inserted |-> {}, lastput |-> [k \in RHKeys |-> 0],
     op |-> "new", key |-> 0, value |-> 0, ret |-> FALSE,
     pre_buckets |-> RHEmptyBuckets, pre_size |-> 0, pre_found |-> 0]

RHPut(key, value) ==
    LET r == RHPutResult(rh.buckets, rh.size, key, value)
    IN /\ rh' = [buckets |-> r.buckets, size |-> r.size,
                 inserted |-> IF r.ret THEN rh.inserted \cup {key} ELSE rh.inserted,
                 lastput |-> [rh.lastput EXCEPT ![key] = value],
                 op |-> "put", key |-> key, value |-> value, ret |-> r.ret,
                 pre_buckets |-> rh.buckets, pre_size |-> rh.size,
                 pre_found |-> RHGet(rh.buckets, key)]
       /\ UNCHANGED notRH


RHNext == \E key \in RHKeys, value \in RHVals : RHPut(key, value)

\* C3: after any sequence of puts, get(k) is non-null exactly for the keys whose
\* put returned true, and yields the value of the most recent put(k, .)
C3_GetIffInserted ==
    \A k \in RHKeys :
        /\ (RHGet(rh.buckets, k) # 0) <=> (k \in rh.inserted)
        /\ (RHGet(rh.buckets, k) # 0) => (RHGet(rh.buckets, k) = rh.lastput[k])

\* C4: a put of an absent key that returns false (no free slot within Capacity
\* probes) leaves every bucket and size() as they were before the call
C4_FailedPutNoMutation ==
    (rh.op = "put" /\ rh.pre_found = 0 /\ rh.ret = FALSE)
        => (rh.buckets = rh.pre_buckets /\ rh.size = rh.pre_size)

\* the number of buckets from the ideal index j to the index i, going up and
\* wrapping at Capacity
Displacement(i, j) == (i - j + Capacity) % Capacity

\* C31: after any sequence of put calls every occupied bucket at index i whose key
\* has ideal index j has probe_distance = (i - j) mod Capacity, or 255 when that
\* distance exceeds 255
C31_ProbeDistanceIsDisplacement ==
    \A i \in DOMAIN rh.buckets :
        rh.buckets[i].state = BUCKET_OCCUPIED
            => rh.buckets[i].probe_distance
                   = Min2(Displacement(i, compute_bucket_index(rh.buckets[i].key)),
                          PD_SATURATION)

\* a put that displaced an entry, in a table with an entry that wrapped past the
\* last bucket
C31_Witness ==
    /\ rh.op = "put" /\ rh.ret
    /\ \E i \in DOMAIN rh.buckets :
           /\ rh.pre_buckets[i].state = BUCKET_OCCUPIED
           /\ rh.buckets[i].key # rh.pre_buckets[i].key
    /\ \E i \in DOMAIN rh.buckets :
           /\ rh.buckets[i].state = BUCKET_OCCUPIED
           /\ i < compute_bucket_index(rh.buckets[i].key)
           /\ rh.buckets[i].probe_distance > 0

(***************************************************************************)
(* Dynamic array (custom_vector/vector.hpp).  The storage is a sequence of *)
(* capacity slots, slot i of the code at position i + 1; a slot outside    *)
(* [0, size) is raw storage, written VecRaw when nothing was left in it.   *)
(* trivial says which branch of "if constexpr (is_trivially_copyable)"     *)
(* the element type compiles to.                                           *)
(***************************************************************************)
kInitialCapacity == 8
\* element values 1..VecMaxVal; at most VecMaxSize elements; reserve up to VecMaxReserve
VecMaxVal == 2
VecMaxSize == 3
VecMaxReserve == 4
VecVals == 1..VecMaxVal
VecRaw == 0

RawSlots(n) == [i \in 1..n |-> VecRaw]

\* reallocate that leaves the last element behind
reallocate_dropLast(v, newCap) ==
    [v EXCEPT !.data = [i \in 1..newCap |-> IF i < v.size THEN v.data[i] ELSE VecRaw],
              !.capacity = newCap]

\* reallocate(newCap): the first size elements move to new storage of newCap slots
reallocate(v, newCap) ==
    [v EXCEPT !.data = [i \in 1..newCap |-> IF i <= v.size THEN v.data[i] ELSE VecRaw],
              !.capacity = newCap]

\* ensure_capacity_for_append that doubles the capacity whatever it is
ensure_capacity_doubling(v) ==
    IF v.size = v.capacity THEN reallocate(v, v.capacity * 2) ELSE v

ensure_capacity_for_append(v) ==
    IF v.size = v.capacity
    THEN reallocate(v, IF v.capacity = 0 THEN kInitialCapacity ELSE v.capacity * 2)
    ELSE v

\* memmove(data + index + 1, data + index, tailCount): slots index+1 .. size
MemmoveTail(data, index, size) ==
    [i \in 1..Len(data) |->
        IF i - 1 > index /\ i - 1 <= size THEN data[i - 1] ELSE data[i]]

\* the loop "for (i = size - 1; i > index; --i) data[i] = move(data[i - 1])"
RECURSIVE ShiftLoop(_, _, _)
ShiftLoop(data, i, index) ==
    IF i > index THEN ShiftLoop([data EXCEPT ![i + 1] = data[i]], i - 1, index)
    ELSE data

\* emplace_back(args): [v, threw]; throws says the element constructor throws
emplace_back(v, x, throws) ==
    LET g == ensure_capacity_for_append(v)
    IN IF throws THEN [v |-> g, threw |-> TRUE, err |-> "none"]
       ELSE [v |-> [g EXCEPT !.data[g.size + 1] = x, !.size = g.size + 1],
             threw |-> FALSE, err |-> "none"]

\* emplace_impl that makes room before it tests the index
emplace_impl_room_first(v, index, x, throws) ==
    LET g == ensure_capacity_for_append(v)
    IN IF index > g.size THEN [v |-> g, threw |-> FALSE, err |-> "IndexOutOfBounds"]
       ELSE [v |-> [g EXCEPT !.data = [i \in 1..g.capacity |->
                                          IF i <= index THEN g.data[i]
                                          ELSE IF i = index + 1 THEN x
                                          ELSE g.data[i - 1]],
                             !.size = g.size + 1],
             threw |-> FALSE, err |-> "none"]

\* emplace_impl(index, args)
emplace_impl(v, index, x, throws) ==
    IF index > v.size THEN [v |-> v, threw |-> FALSE, err |-> "IndexOutOfBounds"]
    ELSE LET g == ensure_capacity_for_append(v)
         IN IF index = g.size
            THEN IF throws THEN [v |-> g, threw |-> TRUE, err |-> "none"]
                 ELSE [v |-> [g EXCEPT !.data[g.size + 1] = x, !.size = g.size + 1],
                       threw |-> FALSE, err |-> "none"]
            ELSE IF g.trivial
            THEN LET moved == MemmoveTail(g.data, index, g.size)
                 IN IF throws
                    THEN [v |-> [g EXCEPT !.data = moved], threw |-> TRUE, err |-> "none"]
                    ELSE [v |-> [g EXCEPT !.data = [moved EXCEPT ![index + 1] = x],
                                          !.size = g.size + 1],
                          threw |-> FALSE, err |-> "none"]
            ELSE IF throws THEN [v |-> g, threw |-> TRUE, err |-> "none"]
                 ELSE LET last == [g.data EXCEPT ![g.size + 1] = g.data[g.size]]
                          shifted == ShiftLoop(last, g.size - 1, index)
                      IN [v |-> [g EXCEPT !.data = [shifted EXCEPT ![index + 1] = x],
                                          !.size = g.size + 1],
                          threw |-> FALSE, err |-> "none"]

pop_back(v) ==
    IF v.size = 0 THEN [v |-> v, threw |-> FALSE, err |-> "Empty"]
    ELSE [v |-> [v EXCEPT !.data[v.size] = VecRaw, !.size = v.size - 1],
          threw |-> FALSE, err |-> "none"]

reserve(v, newCapacity) ==
    IF newCapacity <= v.capacity THEN v ELSE reallocate(v, newCapacity)

shrinkToFit(v) ==
    IF v.capacity = v.size THEN v
    ELSE IF v.size = 0 THEN [v EXCEPT !.data = <<>>, !.capacity = 0]
    ELSE reallocate(v, v.size)

\* at(index): the element, or VecOutOfRange for the exception std::out_of_range
VecOutOfRange == -1
at(v, index) == IF index >= v.size THEN VecOutOfRange ELSE v.data[index + 1]

Elements(v) == [i \in 1..v.size |-> v.data[i]]

\* vector(): the array v, with the abstract sequence of the calls made so far
\* (abs), the last call, and the array before the last call (pre)
VecNew(trivial) ==
    LET v == [data |-> RawSlots(kInitialCapacity), size |-> 0,
              capacity |-> kInitialCapacity, trivial |-> trivial]
    IN [v |-> v, abs |-> <<>>, op |-> "new", threw |-> FALSE, err |-> "none", pre |-> v]

InsertAt(s, index, x) == SubSeq(s, 1, index) \o <<x>> \o SubSeq(s, index + 1, Len(s))

VecStep(op, r, abs) ==
    /\ vec' = [v |-> r.v, abs |-> abs, op |-> op, threw |-> r.threw, err |-> r.err,
               pre |-> vec.v]
    /\ UNCHANGED notVec

VecPushBack(x, throws) ==
    /\ vec.v.size < VecMaxSize
    /\ LET r == emplace_back(vec.v, x, throws)
       IN VecStep("push_back", r, IF throws THEN vec.abs ELSE Append(vec.abs, x))

VecEmplaceBack(x, throws) ==
    /\ vec.v.size < VecMaxSize
    /\ LET r == emplace_back(vec.v, x, throws)
       IN VecStep("emplace_back", r, IF throws THEN vec.abs ELSE Append(vec.abs, x))

VecInsert(index, x, throws) ==
    /\ vec.v.size < VecMaxSize
    /\ LET r == emplace_impl(vec.v, index, x, throws)
       IN VecStep("insert", r,
                  IF throws \/ index > vec.v.size THEN vec.abs ELSE InsertAt(vec.abs, index, x))

VecEmplace(index, x, throws) ==
    /\ vec.v.size < VecMaxSize
    /\ LET r == emplace_impl(vec.v, index, x, throws)
       IN VecStep("emplace", r,
                  IF throws \/ index > vec.v.size THEN vec.abs ELSE InsertAt(vec.abs, index, x))

VecPopBack ==
    VecStep("pop_back", pop_back(vec.v),
            IF vec.abs = <<>> THEN vec.abs ELSE SubSeq(vec.abs, 1, Len(vec.abs) - 1))

VecReserve(newCapacity) ==
    VecStep("reserve", [v |-> reserve(vec.v, newCapacity), threw |-> FALSE, err |-> "none"],
            vec.abs)

VecShrinkToFit ==
    VecStep("shrinkToFit", [v |-> shrinkToFit(vec.v), threw |-> FALSE, err |-> "none"], vec.abs)

\* the calls of the array; Throws is the set of outcomes of the element constructor
VecOps(Throws) ==
    \/ \E x \in VecVals, t \in Throws : VecPushBack(x, t)
    \/ \E x \in VecVals, t \in Throws : VecEmplaceBack(x, t)
    \/ \E i \in 0..(VecMaxSize + 1), x \in VecVals, t \in Throws : VecInsert(i, x, t)
    \/ \E i \in 0..(VecMaxSize + 1), x \in VecVals, t \in Throws : VecEmplace(i, x, t)
    \/ VecPopBack
    \/ \E n \in 0..VecMaxReserve : VecReserve(n)
    \/ VecShrinkToFit

\* element constructors that never throw
VecNext == VecOps({FALSE})
\* element constructors that may throw
VecNextThrow == VecOps(BOOLEAN)

\* C8: size and at(i) agree with the abstract sequence of the calls made
C8_MatchesAbstractSequence ==
    /\ vec.v.size = Len(vec.abs)
    /\ \A i \in 0..(VecMaxSize + 1) :
          at(vec.v, i) = IF i < Len(vec.abs) THEN vec.abs[i + 1] ELSE VecOutOfRange

\* C8 witness: a positional insert in front of the tail, after storage was reallocated
C8_Witness ==
    /\ vec.op = "insert" /\ vec.err = "none"
    /\ vec.v.size = 3 /\ vec.abs[1] # vec.abs[2]
    /\ vec.v.capacity # kInitialCapacity
    /\ vec.v.data[3] = vec.pre.data[2] /\ vec.pre.size = 2

\* C9: when the element constructor throws, the array is as before the call:
\* same size, same capacity, same element at every index
C9_ThrowLeavesArrayUnchanged ==
    vec.threw => /\ vec.v.size = vec.pre.size
                 /\ vec.v.capacity = vec.pre.capacity
                 /\ Elements(vec.v) = Elements(vec.pre)

(***************************************************************************)
(* Optimized LRU cache (lru_cache/lru.h, lru.tpp) with integer keys.       *)
(* nodes and buckets are the arrays nodes_ and hash_buckets_, indexed from *)
(* 0; a destroyed key or value is written 0.                               *)
(***************************************************************************)
INVALID_INDEX == -1
EMPTY_SLOT == INVALID_INDEX
TOMBSTONE == -2
\* capacities 0..LRUMaxCap; keys 1 and 5, and 2 and 6, share a bucket when
\* bucket_count is 4
LRUMaxCap == 2
LRUKeys == {1, 2, 5, 6}
LRUVals == {1, 2}

\* std::hash<K> for an integer key is the key itself in libstdc++ and libc++
compute_hash(key) == key

RECURSIVE PowerOfTwoFrom(_, _)
PowerOfTwoFrom(p, n) == IF p >= n THEN p ELSE PowerOfTwoFrom(2 * p, n)
next_power_of_two(n) == IF n = 0 THEN 1 ELSE PowerOfTwoFrom(1, n)

NewEntry == [key |-> 0, value |-> 0, prev |-> INVALID_INDEX, next |-> INVALID_INDEX,
             hash |-> 0, occupied |-> FALSE]
NewBucket == [node_index |-> EMPTY_SLOT, psl |-> 0]
is_empty(b) == b.node_index = EMPTY_SLOT
is_tombstone(b) == b.node_index = TOMBSTONE
is_occupied(b) == ~is_empty(b) /\ ~is_tombstone(b)

init_free_list(c) ==
    [c EXCEPT !.nodes = [i \in DOMAIN c.nodes |->
                            [c.nodes[i] EXCEPT !.next = IF i + 1 < c.capacity THEN i + 1
                                                        ELSE INVALID_INDEX,
                                               !.occupied = FALSE]],
              !.free_head = 0]

\* LRUCache(item_limit)
LRUCacheNew(item_limit) ==
    LET bc0 == next_power_of_two((item_limit * 10) \div 7)
        bc == IF bc0 < 4 THEN 4 ELSE bc0
    IN IF item_limit = 0
       THEN [nodes |-> <<>>, buckets |-> <<>>, free_head |-> 0,
             lru_head |-> INVALID_INDEX, lru_tail |-> INVALID_INDEX,
             capacity |-> 0, size |-> 0, bucket_count |-> 0]
       ELSE init_free_list(
            [nodes |-> [i \in 0..(item_limit - 1) |-> NewEntry],
             buckets |-> [i \in 0..(bc - 1) |-> NewBucket], free_head |-> 0,
             lru_head |-> INVALID_INDEX, lru_tail |-> INVALID_INDEX,
             capacity |-> item_limit, size |-> 0, bucket_count |-> bc])

\* alloc_slot: [c, slot]
alloc_slot(c) ==
    LET slot == c.free_head
    IN [c |-> [c EXCEPT !.free_head = c.nodes[slot].next, !.nodes[slot].occupied = TRUE],
        slot |-> slot]

free_slot(c, idx) ==
    [c EXCEPT !.nodes[idx] = [c.nodes[idx] EXCEPT !.key = 0, !.value = 0,
                                                  !.occupied = FALSE, !.next = c.free_head],
              !.free_head = idx]

RECURSIVE FindLoop(_, _, _, _, _)
FindLoop(c, key, hash, ideal, psl) ==
    LET idx == (ideal + psl) % c.bucket_count
        b == c.buckets[idx]
    IN IF is_empty(b) THEN INVALID_INDEX
       ELSE IF is_occupied(b) /\ b.psl < psl THEN INVALID_INDEX
       ELSE IF is_occupied(b) /\ c.nodes[b.node_index].hash = hash
                              /\ c.nodes[b.node_index].key = key THEN idx
       ELSE IF psl + 1 > c.bucket_count THEN INVALID_INDEX
       ELSE FindLoop(c, key, hash, ideal, psl + 1)

find_bucket_with_hash(c, key, hash) ==
    IF c.bucket_count = 0 THEN INVALID_INDEX
    ELSE FindLoop(c, key, hash, hash % c.bucket_count, 0)

find_bucket(c, key) == find_bucket_with_hash(c, key, compute_hash(key))

RECURSIVE InsertBucketLoop(_, _, _, _, _, _)
InsertBucketLoop(buckets, bc, ideal, psl, inserting_idx, inserting_psl) ==
    LET idx == (ideal + psl) % bc
        b == buckets[idx]
    IN IF is_empty(b) \/ is_tombstone(b)
       THEN [buckets EXCEPT ![idx] = [node_index |-> inserting_idx, psl |-> inserting_psl]]
       ELSE IF b.psl < inserting_psl
       THEN InsertBucketLoop([buckets EXCEPT ![idx] = [node_index |-> inserting_idx,
                                                       psl |-> inserting_psl]],
                             bc, ideal, psl + 1, b.node_index, b.psl + 1)
       ELSE InsertBucketLoop(buckets, bc, ideal, psl + 1, inserting_idx, inserting_psl + 1)

insert_bucket(c, node_idx, hash) ==
    [c EXCEPT !.buckets = InsertBucketLoop(c.buckets, c.bucket_count,
                                           hash % c.bucket_count, 0, node_idx, 0)]

\* the backward shift of remove_bucket, from the emptied bucket on
RECURSIVE BackwardShift(_, _, _)
BackwardShift(buckets, bc, empty_idx) ==
    LET next_idx == (empty_idx + 1) % bc
        next_b == buckets[next_idx]
    IN IF is_empty(next_b) \/ is_tombstone(next_b) \/ next_b.psl = 0
       THEN [buckets EXCEPT ![empty_idx] = NewBucket]
       ELSE BackwardShift([buckets EXCEPT ![empty_idx] = [next_b EXCEPT !.psl = next_b.psl - 1]],
                          bc, next_idx)

RECURSIVE RemoveLoop(_, _, _, _, _)
RemoveLoop(buckets, bc, ideal, psl, node_idx) ==
    LET idx == (ideal + psl) % bc
        b == buckets[idx]
    IN IF is_empty(b) THEN buckets
       ELSE IF is_occupied(b) /\ b.node_index = node_idx THEN BackwardShift(buckets, bc, idx)
       ELSE IF psl + 1 > bc THEN buckets
       ELSE RemoveLoop(buckets, bc, ideal, psl + 1, node_idx)

remove_bucket(c, node_idx) ==
    [c EXCEPT !.buckets = RemoveLoop(c.buckets, c.bucket_count,
                                     c.nodes[node_idx].hash % c.bucket_count, 0, node_idx)]

link_as_mru(c, idx) ==
    LET n1 == [c.nodes EXCEPT ![idx].prev = INVALID_INDEX, ![idx].next = c.lru_head]
        n2 == IF c.lru_head # INVALID_INDEX THEN [n1 EXCEPT ![c.lru_head].prev = idx] ELSE n1
    IN [c EXCEPT !.nodes = n2, !.lru_head = idx,
                 !.lru_tail = IF c.lru_tail = INVALID_INDEX THEN idx ELSE c.lru_tail]

unlink(c, idx) ==
    LET e == c.nodes[idx]
        n1 == IF e.prev # INVALID_INDEX THEN [c.nodes EXCEPT ![e.prev].next = e.next] ELSE c.nodes
        n2 == IF e.next # INVALID_INDEX THEN [n1 EXCEPT ![e.next].prev = e.prev] ELSE n1
    IN [c EXCEPT !.nodes = n2,
                 !.lru_head = IF e.prev # INVALID_INDEX THEN c.lru_head ELSE e.next,
                 !.lru_tail = IF e.next # INVALID_INDEX THEN c.lru_tail ELSE e.prev]

\* move_to_mru that forgets to relink
move_to_mru_noop(c, idx) == c

move_to_mru(c, idx) == IF idx = c.lru_head THEN c ELSE link_as_mru(unlink(c, idx), idx)

evict_lru(c) ==
    LET victim == c.lru_tail
        f == free_slot(remove_bucket(unlink(c, victim), victim), victim)
    IN [f EXCEPT !.size = f.size - 1]

clear_all(c) ==
    IF c.nodes = <<>> THEN c
    ELSE [c EXCEPT !.nodes = [i \in DOMAIN c.nodes |->
                                 IF c.nodes[i].occupied
                                 THEN [c.nodes[i] EXCEPT !.key = 0, !.value = 0, !.occupied = FALSE]
                                 ELSE c.nodes[i]],
                   !.size = 0, !.lru_head = INVALID_INDEX, !.lru_tail = INVALID_INDEX]

clear(c) ==
    LET a == clear_all(c)
        b == [a EXCEPT !.buckets = [i \in DOMAIN a.buckets |-> NewBucket]]
    IN IF b.nodes # <<>> /\ b.capacity > 0 THEN init_free_list(b) ELSE b

has(c, key) == find_bucket(c, key) # INVALID_INDEX

\* get / get_ref: [c, err, value]
get(c, key) ==
    LET bucket_idx == find_bucket(c, key)
    IN IF bucket_idx = INVALID_INDEX THEN [c |-> c, err |-> "KeyNotFound", value |-> 0]
       ELSE LET node_idx == c.buckets[bucket_idx].node_index
                m == move_to_mru(c, node_idx)
            IN [c |-> m, err |-> "none", value |-> m.nodes[node_idx].value]

get_ref(c, key) == get(c, key)

\* set(key, value): [c, err]
set(c, key, value) ==
    IF c.capacity = 0 THEN [c |-> c, err |-> "CapacityZero", value |-> 0]
    ELSE LET hash == compute_hash(key)
             bucket_idx == find_bucket_with_hash(c, key, hash)
         IN IF bucket_idx # INVALID_INDEX
            THEN LET node_idx == c.buckets[bucket_idx].node_index
                 IN [c |-> move_to_mru([c EXCEPT !.nodes[node_idx].value = value], node_idx),
                     err |-> "none", value |-> 0]
            ELSE LET e == IF c.size >= c.capacity THEN evict_lru(c) ELSE c
                     a == alloc_slot(e)
                     slot == a.slot
                     n == [a.c EXCEPT !.nodes[slot].key = key, !.nodes[slot].value = value,
                                      !.nodes[slot].hash = hash]
                     l == link_as_mru(insert_bucket(n, slot, hash), slot)
                 IN [c |-> [l EXCEPT !.size = l.size + 1], err |-> "none", value |-> 0]

\* what the cache answers: the value get would return for each key (0: KeyNotFound)
LRUContent(c) ==
    [k \in LRUKeys |-> IF has(c, k) THEN c.nodes[c.buckets[find_bucket(c, k)].node_index].value
                       ELSE 0]
LRUCached(c) == {k \in LRUKeys : has(c, k)}

\* the keys in iteration order, begin() to end() (MRU to LRU)
RECURSIVE IterFrom(_, _, _)
IterFrom(c, idx, fuel) ==
    IF idx = INVALID_INDEX \/ fuel = 0 THEN <<>>
    ELSE <<c.nodes[idx].key>> \o IterFrom(c, c.nodes[idx].next, fuel - 1)
LRUIterate(c) == IterFrom(c, c.lru_head, c.capacity + 1)

\* the history the claims speak about: recency lists every key in the order of
\* its latest successful set / get / get_ref, latest first
Touch(recency, key) == <<key>> \o SelectSeq(recency, LAMBDA k : k # key)
\* the least recently used among the cached keys: the last of them in recency
RECURSIVE OldestOf(_, _)
OldestOf(recency, cached) ==
    IF recency = <<>> THEN 0
    ELSE IF recency[Len(recency)] \in cached THEN recency[Len(recency)]
    ELSE OldestOf(SubSeq(recency, 1, Len(recency) - 1), cached)

\* lru.c is the cache; recency is the access history; op and err are the last
\* call and its error; for a set, key is its key and pre the cache before it
LRUNoPre == [content |-> [k \in LRUKeys |-> 0], size |-> 0, oldest |-> 0]

LRUNew(item_limit) ==
    [c |-> LRUCacheNew(item_limit), recency |-> <<>>, op |-> "new", key |-> 0,
     err |-> "none", pre |-> LRUNoPre]

LRUStep(op, key, r) ==
    /\ lru' = [c |-> r.c, op |-> op, err |-> r.err,
               key |-> IF op = "set" THEN key ELSE 0,
               recency |-> IF op \in {"set", "get", "get_ref"} /\ r.err = "none"
                           THEN Touch(lru.recency, key) ELSE lru.recency,
               pre |-> IF op = "set"
                       THEN [content |-> LRUContent(lru.c), size |-> lru.c.size,
                             oldest |-> OldestOf(lru.recency, LRUCached(lru.c))]
                       ELSE LRUNoPre]
    /\ UNCHANGED notLRU

LRUSet(key, value) == LRUStep("set", key, set(lru.c, key, value))
LRUGet(key) == LRUStep("get", key, get(lru.c, key))
LRUGetRef(key) == LRUStep("get_ref", key, get_ref(lru.c, key))
LRUHas(key) == LRUStep("has", key, [c |-> lru.c, err |-> "none"])
LRUClear == LRUStep("clear", 0, [c |-> clear(lru.c), err |-> "none"])

LRUNext ==
    \/ \E k \in LRUKeys, v \in LRUVals : LRUSet(k, v)
    \/ \E k \in LRUKeys : LRUGet(k)
    \/ \E k \in LRUKeys : LRUGetRef(k)
    \/ \E k \in LRUKeys : LRUHas(k)
    \/ LRUClear

\* C2: a set of an uncached key at size = capacity > 0 removes exactly one entry,
\* the least recently used one; every other cached key keeps its value
C2_EvictsExactlyLRU ==
    (lru.op = "set" /\ lru.pre.content[lru.key] = 0
        /\ lru.c.capacity > 0 /\ lru.pre.size = lru.c.capacity)
    => /\ lru.pre.oldest # 0 /\ lru.pre.content[lru.pre.oldest] # 0
       /\ \A k \in LRUKeys \ {lru.key} :
             LRUContent(lru.c)[k] = IF k = lru.pre.oldest THEN 0 ELSE lru.pre.content[k]
       /\ LRUContent(lru.c)[lru.key] # 0
       /\ lru.c.size = lru.c.capacity

\* C2 witness: an eviction from a full cache of two entries; the victim is gone
\* and the other entry, which shares a bucket chain with the new key, survives
C2_Witness ==
    /\ lru.op = "set" /\ lru.err = "none" /\ lru.pre.content[lru.key] = 0
    /\ lru.c.capacity = 2 /\ lru.pre.size = 2
    /\ lru.pre.oldest # 0 /\ ~has(lru.c, lru.pre.oldest)
    /\ \E k \in LRUCached(lru.c) \ {lru.key} :
          compute_hash(k) % lru.c.bucket_count = compute_hash(lru.key) % lru.c.bucket_count

(***************************************************************************)
(* Chained hash table (chained_hashtable/hashtable.h, hashtable.tpp) with  *)
(* integer keys.  buckets is the vector buckets_, bucket i of the code at   *)
(* position i + 1, each chain a sequence of nodes from its head.  An       *)
(* access to buckets_[i] with i >= buckets_.size() is undefined behaviour: *)
(* the model takes either outcome "crash" (the process ends) or "stray"    *)
(* (the read yields nullptr and the write is lost); ub records which one   *)
(* happened, and the model does not follow the table past it.              *)
(***************************************************************************)
\* MAX_TRACKED_OPS of the model (1000 in hashtable.h)
CHTMaxTracked == 3
\* keys 1..CHTMaxKey; bucket counts 0..CHTMaxBuckets for the constructor and execute_resize
CHTMaxKey == 3
CHTMaxBuckets == 4
CHTKeys == 1..CHTMaxKey
CHTVals == {1, 2}
\* ids offered to execute_change_hash_function; 7 takes the default branch
CHTHashIds == {1, 2, 3, 7}
UBOutcomes == {"crash", "stray"}

\* 0x45d9f3b
HF3_MUL == <<59, 159, 93, 4, 0, 0, 0, 0>>

\* std::hash<Key> for an integer key is the key itself in libstdc++ and libc++
hash_function_1(key) == U64OfNat(key)

hash_function_2(key) ==
    LET h0 == U64OfNat(key)
        h1 == U64Xor(h0, U64Shl(h0, 13))
        h2 == U64Xor(h1, U64Shr(h1, 7))
    IN U64Xor(h2, U64Shl(h2, 17))

hash_function_3(key) ==
    LET h0 == U64OfNat(key)
        h1 == U64Mul(U64Xor(U64Shr(h0, 16), h0), HF3_MUL)
        h2 == U64Mul(U64Xor(U64Shr(h1, 16), h1), HF3_MUL)
    IN U64Xor(U64Shr(h2, 16), h2)

HashValue == [id \in CHTHashIds, k \in CHTKeys |->
                 CASE id = 1 -> hash_function_1(k)
                   [] id = 2 -> hash_function_2(k)
                   [] id = 3 -> hash_function_3(k)
                   [] OTHER -> hash_function_1(k)]

get_bucket_index(c, key) ==
    IF c.bucket_count = 0 THEN 0
    ELSE U64Mod(HashValue[c.active_hash_function_id, key], c.bucket_count)

\* HashTable(initial_bucket_count)
HashTableNew(initial_bucket_count) ==
    [buckets |-> [i \in 1..initial_bucket_count |-> <<>>], size |-> 0,
     bucket_count |-> initial_bucket_count, active_hash_function_id |-> 1,
     operation_count |-> 0, operation_index |-> 0, ub |-> "none"]

\* the end of put / get_checked / contains / remove: one sample enters the ring
RecordOperation(c) ==
    [c EXCEPT !.operation_index = (c.operation_index + 1) % CHTMaxTracked,
              !.operation_count = IF c.operation_count < CHTMaxTracked
                                  THEN c.operation_count + 1 ELSE c.operation_count]

\* whether buckets_[index] is an element of the vector
InBounds(c, index) == index < Len(c.buckets)

\* the position of key in a chain, 0 when it is not there
RECURSIVE ChainFind(_, _, _)
ChainFind(chain, key, i) ==
    IF i > Len(chain) THEN 0
    ELSE IF chain[i].key = key THEN i
    ELSE ChainFind(chain, key, i + 1)

get_load_factor_above_075(c) == c.bucket_count # 0 /\ 4 * c.size > 3 * c.bucket_count

\* the loop of rehash over one old chain: every node goes to the head of its new bucket
RECURSIVE RehashChain(_, _, _, _)
RehashChain(r, chain, i, ub) ==
    IF i > Len(chain) \/ r.ub = "crash" THEN r
    ELSE LET new_index == get_bucket_index(r, chain[i].key)
             placed == IF InBounds(r, new_index)
                       THEN [r EXCEPT !.buckets[new_index + 1] = <<chain[i]>> \o @,
                                      !.size = @ + 1]
                       ELSE IF ub = "crash" THEN [r EXCEPT !.ub = "crash"]
                       ELSE [r EXCEPT !.size = @ + 1, !.ub = "stray"]
         IN RehashChain(placed, chain, i + 1, ub)

RECURSIVE RehashBuckets(_, _, _, _)
RehashBuckets(r, old_buckets, i, ub) ==
    IF i > Len(old_buckets) THEN r
    ELSE RehashBuckets(RehashChain(r, old_buckets[i], 1, ub), old_buckets, i + 1, ub)

\* rehash(): size counts the nodes walked (new_size)
rehash(c, ub) ==
    RehashBuckets([c EXCEPT !.buckets = [i \in 1..c.bucket_count |-> <<>>], !.size = 0],
                  c.buckets, 1, ub)

execute_resize(c, new_size, ub) == rehash([c EXCEPT !.bucket_count = new_size], ub)

execute_change_hash_function(c, new_function_id, ub) ==
    rehash([c EXCEPT !.active_hash_function_id = new_function_id], ub)

grow(c, ub) == execute_resize(c, c.bucket_count * 2, ub)

\* put(key, value)
put(c, key, value, ub) ==
    LET g == IF get_load_factor_above_075(c) THEN grow(c, ub) ELSE c
        index == get_bucket_index(g, key)
    IN IF g.ub = "crash" THEN g
       ELSE IF ~InBounds(g, index)
       THEN IF ub = "crash" THEN [g EXCEPT !.ub = "crash"]
            ELSE RecordOperation([g EXCEPT !.size = @ + 1, !.ub = "stray"])
       ELSE LET chain == g.buckets[index + 1]
                pos == ChainFind(chain, key, 1)
            IN IF pos # 0
               THEN RecordOperation([g EXCEPT !.buckets[index + 1][pos].value = value])
               ELSE RecordOperation([g EXCEPT !.buckets[index + 1] =
                                                  <<[key |-> key, value |-> value]>> \o @,
                                              !.size = @ + 1])

\* the value get_checked(key) returns: 0 for KeyNotFound, -1 when the process ended
CHTLookup(c, key, ub) ==
    LET index == get_bucket_index(c, key)
    IN IF c.ub = "crash" THEN -1
       ELSE IF ~InBounds(c, index) THEN (IF ub = "crash" THEN -1 ELSE 0)
       ELSE LET pos == ChainFind(c.buckets[index + 1], key, 1)
            IN IF pos = 0 THEN 0 ELSE c.buckets[index + 1][pos].value

\* get_checked(key) and contains(key): the table after the call
get_checked(c, key, ub) ==
    IF InBounds(c, get_bucket_index(c, key)) THEN RecordOperation(c)
    ELSE IF ub = "crash" THEN [c EXCEPT !.ub = "crash"]
    ELSE RecordOperation([c EXCEPT !.ub = "stray"])

contains(c, key, ub) == get_checked(c, key, ub)

\* remove(key)
remove(c, key, ub) ==
    LET index == get_bucket_index(c, key)
    IN IF ~InBounds(c, index)
       THEN IF ub = "crash" THEN [c EXCEPT !.ub = "crash"]
            ELSE RecordOperation([c EXCEPT !.ub = "stray"])
       ELSE LET chain == c.buckets[index + 1]
                pos == ChainFind(chain, key, 1)
            IN IF pos = 0 THEN RecordOperation(c)
               ELSE RecordOperation(
                        [c EXCEPT !.buckets[index + 1] =
                                      SubSeq(chain, 1, pos - 1) \o SubSeq(chain, pos + 1, Len(chain)),
                                  !.size = @ - 1])

\* the value stored for every key, 0 for a key that is not stored
CHTContent(c) == [k \in CHTKeys |-> CHTLookup(c, k, "stray")]

\* cht.c is the table; op is the last call; for execute_resize and
\* execute_change_hash_function, pre is what the table answered before the call
CHTNoPre == [content |-> [k \in CHTKeys |-> 0], size |-> 0]

CHTNew(initial_bucket_count) ==
    [c |-> HashTableNew(initial_bucket_count), op |-> "new", pre |-> CHTNoPre]

CHTStep(op, c) ==
    /\ cht.c.ub = "none"
    /\ cht' = [c |-> c, op |-> op,
               pre |-> IF op \in {"execute_resize", "execute_change_hash_function"}
                       THEN [content |-> CHTContent(cht.c), size |-> cht.c.size]
                       ELSE CHTNoPre]
    /\ UNCHANGED notCHT

CHTPut(key, value, ub) == CHTStep("put", put(cht.c, key, value, ub))
CHTGetChecked(key, ub) == CHTStep("get_checked", get_checked(cht.c, key, ub))
CHTContains(key, ub) == CHTStep("contains", contains(cht.c, key, ub))
CHTRemove(key, ub) == CHTStep("remove", remove(cht.c, key, ub))
CHTExecuteResize(new_size, ub) ==
    CHTStep("execute_resize", execute_resize(cht.c, new_size, ub))
CHTExecuteChangeHashFunction(id, ub) ==
    CHTStep("execute_change_hash_function", execute_change_hash_function(cht.c, id, ub))

CHTNext ==
    \/ \E k \in CHTKeys, v \in CHTVals, ub \in UBOutcomes : CHTPut(k, v, ub)
    \/ \E k \in CHTKeys, ub \in UBOutcomes : CHTGetChecked(k, ub)
    \/ \E k \in CHTKeys, ub \in UBOutcomes : CHTContains(k, ub)
    \/ \E k \in CHTKeys, ub \in UBOutcomes : CHTRemove(k, ub)
    \/ \E n \in 0..CHTMaxBuckets, ub \in UBOutcomes : CHTExecuteResize(n, ub)
    \/ \E id \in CHTHashIds, ub \in UBOutcomes : CHTExecuteChangeHashFunction(id, ub)

\* C7: after execute_resize(new_b), any new_b, or execute_change_hash_function(id),
\* any id, get_checked returns for every key what it returned before the call,
\* and size is unchanged
C7_RehashKeepsContent ==
    (cht.op \in {"execute_resize", "execute_change_hash_function"})
        => /\ cht.c.ub = "none"
           /\ \A k \in CHTKeys :
                 cht.pre.content[k] # 0 =>
                     \A ub \in UBOutcomes : CHTLookup(cht.c, k, ub) = cht.pre.content[k]
           /\ cht.c.size = cht.pre.size

(***************************************************************************)
(* Partial-order data structure of faster_dijkstra/duan                    *)
(* (partial_order_ds.hpp, partial_order_ds.cpp).  A block is               *)
(* [id, upper_bound, elements]; id stands for the address of the list node *)
(* that std::list<Block>::iterator designates, so that D1_bounds_ and      *)
(* key_locations_ can outlive the block they designate.  Using such a      *)
(* dangling iterator is undefined behaviour: ub becomes "undefined" and     *)
(* the structure is not followed past it.  Distances are integers and INF  *)
(* is a number above all of them.                                          *)
(***************************************************************************)
INF == 1000000

\* std::map and std::unordered_map as functions
MapErase(f, x) == [y \in DOMAIN f \ {x} |-> f[y]]
MapSet(f, x, v) == [y \in DOMAIN f \cup {x} |-> IF y = x THEN v ELSE f[y]]
EmptyMap == [y \in {} |-> 0]

SeqRemoveAt(s, i) == SubSeq(s, 1, i - 1) \o SubSeq(s, i + 1, Len(s))
SetMin(S) == CHOOSE x \in S : \A y \in S : x <= y
SetMax(S) == CHOOSE x \in S : \A y \in S : y <= x
RECURSIVE Reverse(_)
Reverse(s) == IF s = <<>> THEN <<>> ELSE Reverse(Tail(s)) \o <<Head(s)>>

\* the items of s in ascending order of their ranks r, equal ranks in the order of s
\* (std::sort on fewer than 16 items is an insertion sort)
RECURSIVE StableSort(_, _)
StableSort(s, r) ==
    IF s = <<>> THEN <<>>
    ELSE LET m == SetMin({r[i] : i \in DOMAIN r})
             i == SetMin({j \in DOMAIN r : r[j] = m})
         IN <<s[i]>> \o StableSort(SeqRemoveAt(s, i), SeqRemoveAt(r, i))

\* the iteration order of an unordered container holding the keys S
UnorderedOrders == {"ascending", "descending"}
RECURSIVE Ascending(_)
Ascending(S) == IF S = {} THEN <<>> ELSE <<SetMin(S)>> \o Ascending(S \ {SetMin(S)})
IterationOrder(S, order) == IF order = "ascending" THEN Ascending(S) ELSE Reverse(Ascending(S))

Values(elements) == [i \in DOMAIN elements |-> elements[i].value]
Keys(elements) == [i \in DOMAIN elements |-> elements[i].key]

\* Block(ub)
NewBlock(id, ub, elements) == [id |-> id, upper_bound |-> ub, elements |-> elements]

Initialize(M, B) ==
    [M_ |-> M, B_ |-> B, D0_ |-> <<>>, D1_ |-> <<NewBlock(1, B, <<>>)>>,
     D1_bounds_ |-> MapSet(EmptyMap, B, 1), key_locations_ |-> EmptyMap,
     next_id |-> 2, ub |-> "none"]

\* the blocks an iterator can still designate
LiveD0(ds) == {ds.D0_[i].id : i \in DOMAIN ds.D0_}
LiveD1(ds) == {ds.D1_[i].id : i \in DOMAIN ds.D1_}
BlockIndex(sequence, id) == CHOOSE i \in DOMAIN sequence : sequence[i].id = id
Dangling(ds, loc) ==
    IF loc.sequence_id = 1 THEN loc.blk \notin LiveD1(ds) ELSE loc.blk \notin LiveD0(ds)

\* empty()
empty(ds) ==
    /\ \A i \in DOMAIN ds.D0_ : ds.D0_[i].elements = <<>>
    /\ \A i \in DOMAIN ds.D1_ : ds.D1_[i].elements = <<>>

UpdateKeyLocation(ds, key, seq_id, blk) ==
    [ds EXCEPT !.key_locations_ = MapSet(@, key, [sequence_id |-> seq_id, blk |-> blk])]

RECURSIVE UpdateKeyLocations(_, _, _, _)
UpdateKeyLocations(ds, elements, seq_id, blk) ==
    IF elements = <<>> THEN ds
    ELSE UpdateKeyLocations(UpdateKeyLocation(ds, Head(elements).key, seq_id, blk),
                            Tail(elements), seq_id, blk)

RemoveKeyLocation(ds, key) == [ds EXCEPT !.key_locations_ = MapErase(@, key)]

\* Delete(key, loc) with loc = key_locations_[key]
Delete(ds, key) ==
    LET loc == ds.key_locations_[key]
    IN IF Dangling(ds, loc) THEN [ds EXCEPT !.ub = "undefined"]
       ELSE IF loc.sequence_id = 1
       THEN LET i == BlockIndex(ds.D1_, loc.blk)
                elements == SelectSeq(ds.D1_[i].elements, LAMBDA e : e.key # key)
                erased == [ds EXCEPT !.D1_[i].elements = elements]
            IN RemoveKeyLocation(
                   IF elements = <<>>
                   THEN [erased EXCEPT !.D1_bounds_ = MapErase(@, ds.D1_[i].upper_bound)]
                   ELSE erased, key)
       ELSE LET i == BlockIndex(ds.D0_, loc.blk)
            IN RemoveKeyLocation(
                   [ds EXCEPT !.D0_[i].elements = SelectSeq(@, LAMBDA e : e.key # key)], key)

\* the value loc.elem_it->second of a key that has a location in a live block
StoredValue(ds, key) ==
    LET loc == ds.key_locations_[key]
        sequence == IF loc.sequence_id = 1 THEN ds.D1_ ELSE ds.D0_
        elements == sequence[BlockIndex(sequence, loc.blk)].elements
    IN elements[CHOOSE i \in DOMAIN elements : elements[i].key = key].value

\* values[mid] after nth_element, mid = size / 2
FindMedian(elements) ==
    StableSort(Values(elements), Values(elements))[(Len(elements) \div 2) + 1]

PartitionByMedian(elements, median) ==
    <<SelectSeq(elements, LAMBDA e : e.value < median),
      SelectSeq(elements, LAMBDA e : ~(e.value < median))>>

\* SplitBlock(block_it) for the block at position i of D1_
SplitBlock(ds, i) ==
    LET block == ds.D1_[i]
        median == FindMedian(block.elements)
        parts == PartitionByMedian(block.elements, median)
        block1 == NewBlock(block.id, median, parts[1])
        block2 == NewBlock(ds.next_id, block.upper_bound, parts[2])
        bounds == MapSet(MapSet(MapErase(ds.D1_bounds_, block.upper_bound),
                                block1.upper_bound, block1.id),
                         block2.upper_bound, block2.id)
        split == [ds EXCEPT !.D1_ = SubSeq(@, 1, i - 1) \o <<block1, block2>>
                                        \o SubSeq(@, i + 1, Len(@)),
                            !.D1_bounds_ = bounds, !.next_id = @ + 1]
    IN UpdateKeyLocations(UpdateKeyLocations(split, block1.elements, 1, block1.id),
                          block2.elements, 1, block2.id)

\* FindBlockForValue(value): the id of the block the returned iterator designates,
\* 0 for std::prev(D1_.end()) of an empty list
FindBlockForValue(ds, value) ==
    LET above == {b \in DOMAIN ds.D1_bounds_ : b >= value}
    IN IF above = {}
       THEN (IF ds.D1_ = <<>> THEN 0 ELSE ds.D1_[Len(ds.D1_)].id)
       ELSE ds.D1_bounds_[SetMin(above)]

\* Insert(key, value)
Insert(ds, key, value) ==
    LET known == key \in DOMAIN ds.key_locations_
    IN IF ds.ub # "none" THEN ds
       ELSE IF known /\ Dangling(ds, ds.key_locations_[key]) THEN [ds EXCEPT !.ub = "undefined"]
       ELSE IF known /\ ~(value < StoredValue(ds, key)) THEN ds
       ELSE LET del == IF known THEN Delete(ds, key) ELSE ds
                blk == FindBlockForValue(del, value)
            IN IF blk \notin LiveD1(del) THEN [del EXCEPT !.ub = "undefined"]
               ELSE LET i == BlockIndex(del.D1_, blk)
                        placed == UpdateKeyLocation(
                                      [del EXCEPT !.D1_[i].elements =
                                                      Append(@, [key |-> key, value |-> value])],
                                      key, 1, blk)
                    IN IF Len(placed.D1_[i].elements) > placed.M_
                       THEN SplitBlock(placed, i) ELSE placed

\* CreateBlocksFromList(L): the element lists of the blocks; diverged when a call
\* makes the same call again (L_left empty, L_right = L), which never returns
RECURSIVE CreateBlocksFromList(_, _)
CreateBlocksFromList(L, M) ==
    IF Len(L) <= M \div 2 THEN [blocks |-> <<L>>, diverged |-> FALSE]
    ELSE LET median == FindMedian(L)
             parts == PartitionByMedian(L, median)
         IN IF parts[1] = <<>> THEN [blocks |-> <<>>, diverged |-> TRUE]
            ELSE LET blocks_left == CreateBlocksFromList(parts[1], M)
                     blocks_right == CreateBlocksFromList(parts[2], M)
                 IN [blocks |-> blocks_left.blocks \o blocks_right.blocks,
                     diverged |-> blocks_left.diverged \/ blocks_right.diverged]

\* the first loop of BatchPrepend: min_values
MinValues(L) ==
    [k \in {L[i].key : i \in DOMAIN L} |->
        SetMin({L[i].value : i \in {j \in DOMAIN L : L[j].key = k}})]

\* the second loop of BatchPrepend over the keys of min_values
RECURSIVE FilterAgainstExisting(_, _, _, _)
FilterAgainstExisting(ds, min_values, keys, L_filtered) ==
    IF keys = <<>> \/ ds.ub # "none" THEN [ds |-> ds, L_filtered |-> L_filtered]
    ELSE LET key == Head(keys)
             entry == [key |-> key, value |-> min_values[key]]
         IN IF key \notin DOMAIN ds.key_locations_
            THEN FilterAgainstExisting(ds, min_values, Tail(keys),
                                       Append(L_filtered, entry))
            ELSE IF Dangling(ds, ds.key_locations_[key])
            THEN [ds |-> [ds EXCEPT !.ub = "undefined"], L_filtered |-> L_filtered]
            ELSE IF entry.value < StoredValue(ds, key)
            THEN FilterAgainstExisting(Delete(ds, key), min_values, Tail(keys),
                                       Append(L_filtered, entry))
            ELSE FilterAgainstExisting(ds, min_values, Tail(keys), L_filtered)

\* D0_.push_front(block) and the key locations of its elements
PushFrontD0(ds, elements) ==
    UpdateKeyLocations([ds EXCEPT !.D0_ = <<NewBlock(ds.next_id, INF, elements)>> \o @,
                                  !.next_id = @ + 1],
                       elements, 0, ds.next_id)

RECURSIVE PushFrontAll(_, _)
PushFrontAll(ds, blocks) ==
    IF blocks = <<>> THEN ds ELSE PushFrontAll(PushFrontD0(ds, Head(blocks)), Tail(blocks))

\* BatchPrepend(L)
BatchPrepend(ds, L, order) ==
    IF L = <<>> \/ ds.ub # "none" THEN ds
    ELSE LET min_values == MinValues(L)
             f == FilterAgainstExisting(ds, min_values,
                                        IterationOrder(DOMAIN min_values, order), <<>>)
         IN IF f.ds.ub # "none" \/ f.L_filtered = <<>> THEN f.ds
            ELSE IF Len(f.L_filtered) <= ds.M_ THEN PushFrontD0(f.ds, f.L_filtered)
            ELSE LET new_blocks == CreateBlocksFromList(f.L_filtered, ds.M_)
                 IN IF new_blocks.diverged THEN [f.ds EXCEPT !.ub = "overflow"]
                    ELSE PushFrontAll(f.ds, new_blocks.blocks)

\* CollectPrefix(sequence, target_size): it is the position the returned iterator designates
RECURSIVE CollectPrefixFrom(_, _, _, _)
CollectPrefixFrom(sequence, target_size, it, collected) ==
    IF it > Len(sequence) \/ ~(Len(collected) < target_size)
    THEN [collected |-> collected, it |-> it]
    ELSE LET elements == sequence[it].elements
             take == Min2(target_size - Len(collected), Len(elements))
         IN CollectPrefixFrom(sequence, target_size, it + 1,
                              collected \o SubSeq(elements, 1, take))

CollectPrefix(sequence, target_size) == CollectPrefixFrom(sequence, target_size, 1, <<>>)

RECURSIVE RemoveKeyLocations(_, _)
RemoveKeyLocations(ds, keys) ==
    IF keys = <<>> THEN ds ELSE RemoveKeyLocations(RemoveKeyLocation(ds, Head(keys)), Tail(keys))

\* the loop of Pull that refreshes D1_bounds_ for the blocks left in D1_
RECURSIVE RefreshBounds(_, _)
RefreshBounds(ds, i) ==
    IF i > Len(ds.D1_) THEN ds
    ELSE RefreshBounds([ds EXCEPT !.D1_bounds_ = MapSet(@, ds.D1_[i].upper_bound, ds.D1_[i].id)],
                       i + 1)

RECURSIVE DeleteSelected(_, _)
DeleteSelected(ds, keys) ==
    IF keys = <<>> \/ ds.ub # "none" THEN ds
    ELSE DeleteSelected(IF Head(keys) \in DOMAIN ds.key_locations_
                        THEN Delete(ds, Head(keys)) ELSE ds,
                        Tail(keys))

FrontValues(sequence) ==
    IF sequence = <<>> THEN {} ELSE {sequence[1].elements[i].value : i \in DOMAIN sequence[1].elements}

\* Pull(): the structure after the call, the keys and the separator returned
\* (the Delete calls of the selected keys commute, so they are made in key order)
Pull(ds) ==
    LET c0 == CollectPrefix(ds.D0_, ds.M_)
        c1 == CollectPrefix(ds.D1_, ds.M_)
        S_combined == c0.collected \o c1.collected
    IN IF ds.ub # "none" THEN [ds |-> ds, keys |-> <<>>, separator |-> ds.B_]
       ELSE IF Len(S_combined) <= ds.M_
       THEN LET removed == RemoveKeyLocations(ds, Keys(S_combined))
                erased == [removed EXCEPT !.D0_ = SubSeq(@, c0.it, Len(@)),
                                          !.D1_ = SubSeq(@, c1.it, Len(@))]
                after == RefreshBounds(erased, 1)
                front0 == IF after.D0_ # <<>> /\ after.D0_[1].elements # <<>>
                          THEN after.D0_[1].elements[1].value ELSE INF
                front1 == IF after.D1_ # <<>> /\ after.D1_[1].elements # <<>>
                          THEN after.D1_[1].elements[1].value ELSE INF
            IN [ds |-> after, keys |-> Keys(S_combined),
                separator |-> IF empty(after) THEN after.B_ ELSE Min2(front0, front1)]
       ELSE LET sorted == StableSort(S_combined, Values(S_combined))
                result_keys == Keys(SubSeq(sorted, 1, ds.M_))
                after == DeleteSelected(ds, Ascending({result_keys[i] : i \in DOMAIN result_keys}))
                rest == FrontValues(after.D0_) \cup FrontValues(after.D1_)
            IN [ds |-> after, keys |-> result_keys,
                separator |-> IF rest = {} THEN after.B_ ELSE SetMin(rest)]

(***************************************************************************)
(* The structure under arbitrary calls that keep the callers' contract:    *)
(* inserted values are below B, and the values of a batch are below every  *)
(* value stored.                                                           *)
(***************************************************************************)
PODSMaxM == 2
PODSMaxVal == 3
PODSMaxBatch == 2
PODSMaxBlocks == 2
PODSKeys == {1, 2, 3}
PODSVals == 1..PODSMaxVal
PODSBounds == {PODSMaxVal + 1}
PODSEntries == [key : PODSKeys, value : PODSVals]
PODSBatches == UNION {[1..n -> PODSEntries] : n \in 1..PODSMaxBatch}

\* the elements stored, over all blocks
RECURSIVE AllElements(_)
AllElements(sequence) ==
    IF sequence = <<>> THEN <<>> ELSE Head(sequence).elements \o AllElements(Tail(sequence))
Contents(ds) ==
    LET all == AllElements(ds.D0_) \o AllElements(ds.D1_) IN {all[i] : i \in DOMAIN all}

\* block addresses renamed to the position of the block; 0 for a block that is gone
Renamed(ds) ==
    LET n0 == Len(ds.D0_)
        NewId(sid, id) == IF sid = 1
                          THEN (IF id \in LiveD1(ds) THEN n0 + BlockIndex(ds.D1_, id) ELSE 0)
                          ELSE (IF id \in LiveD0(ds) THEN BlockIndex(ds.D0_, id) ELSE 0)
    IN [ds EXCEPT !.D0_ = [i \in DOMAIN @ |-> [@[i] EXCEPT !.id = i]],
                  !.D1_ = [i \in DOMAIN @ |-> [@[i] EXCEPT !.id = n0 + i]],
                  !.D1_bounds_ = [b \in DOMAIN @ |-> NewId(1, @[b])],
                  !.key_locations_ = [k \in DOMAIN @ |->
                                         [sequence_id |-> @[k].sequence_id,
                                          blk |-> NewId(@[k].sequence_id, @[k].blk)]],
                  !.next_id = n0 + Len(ds.D1_) + 1]

PODSNoResult == [keys |-> <<>>, separator |-> 0, before |-> {}]

PODSNew(M, B) == [ds |-> Initialize(M, B), op |-> "Initialize", pulled |-> PODSNoResult]

\* one call that leaves at most max_blocks blocks in the structure
PODSStepWithin(op, ds, pulled, max_blocks) ==
    /\ pods.ds.ub = "none"
    /\ Len(ds.D0_) + Len(ds.D1_) <= max_blocks
    /\ pods' = [ds |-> Renamed(ds), op |-> op, pulled |-> pulled]
    /\ UNCHANGED notPODS

PODSStep(op, ds, pulled) == PODSStepWithin(op, ds, pulled, PODSMaxBlocks)

PODSInsert(key, value) ==
    /\ value < pods.ds.B_
    /\ PODSStep("Insert", Insert(pods.ds, key, value), PODSNoResult)

PODSBatchPrepend(L, order) ==
    /\ \A i \in DOMAIN L : \A e \in Contents(pods.ds) : L[i].value < e.value
    /\ PODSStep("BatchPrepend", BatchPrepend(pods.ds, L, order), PODSNoResult)

PODSPull ==
    LET r == Pull(pods.ds)
    IN PODSStep("Pull", r.ds, [keys |-> r.keys, separator |-> r.separator,
                               before |-> Contents(pods.ds)])

PODSNext ==
    \/ \E k \in PODSKeys, v \in PODSVals : PODSInsert(k, v)
    \/ \E L \in PODSBatches, order \in UnorderedOrders : PODSBatchPrepend(L, order)
    \/ PODSPull

(***************************************************************************)
(* The structure with block size PODSMaxM over one more key and one more   *)
(* block, under single inserts, batches of one entry and Pull.             *)
(***************************************************************************)
PODSWideKeys == PODSKeys \cup {4}
PODSWideBlocks == PODSMaxBlocks + 1

PODSWideInsert(key, value) ==
    /\ value < pods.ds.B_
    /\ PODSStepWithin("Insert", Insert(pods.ds, key, value), PODSNoResult, PODSWideBlocks)

PODSWideBatchPrepend(key, value) ==
    /\ \A e \in Contents(pods.ds) : value < e.value
    /\ PODSStepWithin("BatchPrepend",
                      BatchPrepend(pods.ds, <<[key |-> key, value |-> value]>>, "ascending"),
                      PODSNoResult, PODSWideBlocks)

PODSWidePull ==
    LET r == Pull(pods.ds)
    IN PODSStepWithin("Pull", r.ds, [keys |-> r.keys, separator |-> r.separator,
                                     before |-> Contents(pods.ds)], PODSWideBlocks)

PODSWideNext ==
    \/ \E k \in PODSWideKeys, v \in PODSVals : PODSWideInsert(k, v)
    \/ \E k \in PODSWideKeys, v \in PODSVals : PODSWideBatchPrepend(k, v)
    \/ PODSWidePull

PulledKeys == {pods.pulled.keys[i] : i \in DOMAIN pods.pulled.keys}

\* C5: when the structure holds more than M elements, Pull returns exactly M keys
\* and they are the M smallest elements of the structure by value: the value of
\* every element returned is <= the value of every element not returned
C5_PullReturnsMSmallest ==
    (pods.op = "Pull" /\ pods.ds.ub = "none" /\ Cardinality(pods.pulled.before) > pods.ds.M_)
        => /\ Len(pods.pulled.keys) = pods.ds.M_
           /\ Cardinality(PulledKeys) = pods.ds.M_
           /\ PulledKeys \subseteq {e.key : e \in pods.pulled.before}
           /\ \A r \in pods.pulled.before : \A e \in pods.pulled.before :
                  (r.key \in PulledKeys /\ e.key \notin PulledKeys) => r.value <= e.value

\* the k-th smallest value of a set of entries, counted with repetitions
KthSmallestValue(entries, k) ==
    CHOOSE v \in {e.value : e \in entries} :
        /\ Cardinality({e \in entries : e.value < v}) < k
        /\ Cardinality({e \in entries : e.value <= v}) >= k

\* C19: when Pull returns keys and leaves at least one element in the structure,
\* the separator x it returns is the (M+1)-th smallest value of the structure
\* before the call, every returned element's value is below x, and x is at most
\* the value of every element that remains (stated for the calls some x can
\* satisfy: the M-th and the (M+1)-th smallest values differ)
C19_SeparatorBetween ==
    (/\ pods.op = "Pull" /\ pods.ds.ub = "none"
     /\ PulledKeys # {} /\ Contents(pods.ds) # {}
     /\ Cardinality(pods.pulled.before) > pods.ds.M_
            => KthSmallestValue(pods.pulled.before, pods.ds.M_)
                   < KthSmallestValue(pods.pulled.before, pods.ds.M_ + 1))
        => /\ Cardinality(pods.pulled.before) > pods.ds.M_
           /\ pods.pulled.separator = KthSmallestValue(pods.pulled.before, pods.ds.M_ + 1)
           /\ \A r \in pods.pulled.before :
                  r.key \in PulledKeys => r.value < pods.pulled.separator
           /\ \A e \in Contents(pods.ds) : pods.pulled.separator <= e.value

(***************************************************************************)
(* The structure with the history of the offers: offered keeps, for every  *)
(* key, the values offered by Insert and BatchPrepend since the key was    *)
(* last removed by Pull (returned or erased with its block).               *)
(***************************************************************************)
PODSOfferKeys == {1, 2}

Offered(offered, L) ==
    [k \in DOMAIN offered \cup {L[i].key : i \in DOMAIN L} |->
        (IF k \in DOMAIN offered THEN offered[k] ELSE {})
            \cup {L[i].value : i \in {j \in DOMAIN L : L[j].key = k}}]
StillOffered(offered, ds) ==
    [k \in DOMAIN offered \cap {e.key : e \in Contents(ds)} |-> offered[k]]

PODSOffersNew(M, B) ==
    [ds |-> Initialize(M, B), op |-> "Initialize", offered |-> EmptyMap]

PODSOffersStep(op, ds, offered) ==
    /\ pods.ds.ub = "none"
    /\ Len(ds.D0_) + Len(ds.D1_) <= PODSMaxBlocks
    /\ pods' = [ds |-> Renamed(ds), op |-> op, offered |-> offered]
    /\ UNCHANGED notPODS

PODSOffersInsert(key, value) ==
    /\ value < pods.ds.B_
    /\ PODSOffersStep("Insert", Insert(pods.ds, key, value),
                      Offered(pods.offered, <<[key |-> key, value |-> value]>>))

PODSOffersBatchPrepend(L, order) ==
    /\ \A i \in DOMAIN L : L[i].key \in PODSOfferKeys
    /\ \A i \in DOMAIN L : \A e \in Contents(pods.ds) : L[i].value < e.value
    /\ PODSOffersStep("BatchPrepend", BatchPrepend(pods.ds, L, order), Offered(pods.offered, L))

PODSOffersPull ==
    PODSOffersStep("Pull", Pull(pods.ds).ds, StillOffered(pods.offered, Pull(pods.ds).ds))

PODSOffersNext ==
    \/ \E k \in PODSOfferKeys, v \in PODSVals : PODSOffersInsert(k, v)
    \/ \E L \in PODSBatches, order \in UnorderedOrders : PODSOffersBatchPrepend(L, order)
    \/ PODSOffersPull

\* the values stored for a key, one for each occurrence of the key
StoredFor(ds, key) ==
    SelectSeq(AllElements(ds.D0_) \o AllElements(ds.D1_), LAMBDA e : e.key = key)

\* every entry of L offers a value that is not below the one stored for its key
NothingBetter(ds, L) ==
    \A i \in DOMAIN L :
        /\ Len(StoredFor(ds, L[i].key)) = 1
        /\ StoredFor(ds, L[i].key)[1].value <= L[i].value

\* each key offered since Pull last removed it is stored once, with the least
\* value offered
StoredIsMinOffered(ds, offered) ==
    /\ \A e \in Contents(ds) : e.key \in DOMAIN offered
    /\ \A k \in DOMAIN offered :
           /\ Len(StoredFor(ds, k)) = 1
           /\ StoredFor(ds, k)[1].value = SetMin(offered[k])

\* C20: after any sequence of Insert and BatchPrepend calls (with Pull calls in
\* between) each key occurs at most once in the structure and the value stored
\* for it is the minimum of the values offered for the key since Pull last
\* removed it; an offer whose value is >= the stored one changes nothing
C20_StoredIsMinOffered ==
    pods.op \in {"Insert", "BatchPrepend"}
        => /\ pods.ds.ub = "none"
           /\ StoredIsMinOffered(pods.ds, pods.offered)
           /\ \A k \in PODSOfferKeys, v \in PODSVals :
                  NothingBetter(pods.ds, <<[key |-> k, value |-> v]>>)
                      => Insert(pods.ds, k, v) = pods.ds
           /\ \A L \in PODSBatches, order \in UnorderedOrders :
                  NothingBetter(pods.ds, L) => BatchPrepend(pods.ds, L, order) = pods.ds

(***************************************************************************)
(* PartialOrderDS of faster_dijkstra/Duan_deterministic_sssp.cpp, the      *)
(* single-file implementation.  A block is a vector of entries with its    *)
(* cached minimum and maximum; d1_by_mx is the std::set of pairs           *)
(* <<mx, Block*>>, a block address being the id of the block (0 for        *)
(* nullptr).  Cmp compares the addresses of different list nodes, whose    *)
(* order the allocator decides: address_order says whether a later         *)
(* allocation lies above or below the earlier ones.  pos keeps for every   *)
(* key the block pointer, the set iterator (the pair it designates) and    *)
(* the value.  Reading through a pointer to a block that was erased,       *)
(* erasing an iterator that is not in the set, and indexing cand past its  *)
(* end are undefined behaviour: ub becomes "undefined" and the structure   *)
(* is not followed past it.  nth_element on at most three items is the     *)
(* insertion sort of the library; on longer ranges the model takes the     *)
(* sorted range, which satisfies its postcondition.                        *)
(***************************************************************************)
INF_LD == 1000000

AddressOrders == {"ascending", "descending"}

Entry(key, val) == [key |-> key, val |-> val]
Vals(items) == [i \in DOMAIN items |-> items[i].val]
EntryKeys(items) == [i \in DOMAIN items |-> items[i].key]

\* Block::recompute()
recompute(blk) ==
    IF blk.items = <<>> THEN [blk EXCEPT !.mn = INF_LD, !.mx = -INF_LD]
    ELSE [blk EXCEPT !.mn = SetMin({blk.items[i].val : i \in DOMAIN blk.items}),
                     !.mx = SetMax({blk.items[i].val : i \in DOMAIN blk.items})]

\* a Block holding the items, before recompute() is called on it
MonoBlock(id, items) == [id |-> id, items |-> items, mn |-> INF_LD, mx |-> -INF_LD]

\* Cmp::operator(): pairs <<mx, address>> by mx, then by address
Cmp(a, b, address_order) ==
    IF a[1] # b[1] THEN a[1] < b[1]
    ELSE IF a[2] = 0 THEN b[2] # 0
    ELSE IF b[2] = 0 THEN FALSE
    ELSE IF address_order = "ascending" THEN a[2] < b[2] ELSE b[2] < a[2]

\* the pairs of a SetType in iteration order
RECURSIVE SetTypeOrder(_, _)
SetTypeOrder(S, address_order) ==
    IF S = {} THEN <<>>
    ELSE LET first == CHOOSE a \in S : \A b \in S \ {a} : Cmp(a, b, address_order)
         IN <<first>> \o SetTypeOrder(S \ {first}, address_order)

\* a default-constructed PartialOrderDS
MonoNew(address_order) ==
    [M |-> 1, B_bound |-> INF_LD, d0 |-> <<>>, d1 |-> <<>>, d1_by_mx |-> {},
     pos |-> EmptyMap, next_id |-> 1, address_order |-> address_order, ub |-> "none"]

\* clear()
MonoClear(ds) ==
    [ds EXCEPT !.d0 = <<>>, !.d1 = <<>>, !.d1_by_mx = {}, !.pos = EmptyMap,
               !.B_bound = INF_LD, !.M = 1]

\* Initialize(M_, B_)
MonoInitialize(ds, M_, B_) ==
    LET blk == MonoBlock(ds.next_id, <<>>)
    IN [MonoClear(ds) EXCEPT !.M = Max2(1, M_), !.B_bound = B_, !.d1 = <<blk>>,
                             !.d1_by_mx = {<<blk.mx, blk.id>>}, !.next_id = @ + 1]

MonoLive(ds) == {ds.d0[i].id : i \in DOMAIN ds.d0} \cup {ds.d1[i].id : i \in DOMAIN ds.d1}
MonoBlockOf(ds, id) ==
    IF \E i \in DOMAIN ds.d0 : ds.d0[i].id = id
    THEN ds.d0[CHOOSE i \in DOMAIN ds.d0 : ds.d0[i].id = id]
    ELSE ds.d1[CHOOSE i \in DOMAIN ds.d1 : ds.d1[i].id = id]
\* an assignment through a Block*
MonoSetBlock(ds, blk) ==
    [ds EXCEPT !.d0 = [i \in DOMAIN @ |-> IF @[i].id = blk.id THEN blk ELSE @[i]],
               !.d1 = [i \in DOMAIN @ |-> IF @[i].id = blk.id THEN blk ELSE @[i]]]

\* pos.at(entry.key).set_it = it for the entries of a block; at() throws for a key
\* that pos does not hold
RECURSIVE SetIts(_, _, _)
SetIts(ds, items, it) ==
    IF items = <<>> \/ ds.ub # "none" THEN ds
    ELSE IF Head(items).key \notin DOMAIN ds.pos THEN [ds EXCEPT !.ub = "out_of_range"]
    ELSE SetIts([ds EXCEPT !.pos[Head(items).key].set_it = it], Tail(items), it)

\* vec[i] = vec.back(); vec.pop_back() for the first i with vec[i].key == key
SwapRemove(items, key) ==
    LET found == {i \in DOMAIN items : items[i].key = key}
    IN IF found = {} THEN items
       ELSE LET i == SetMin(found)
                n == Len(items)
            IN [j \in 1..(n - 1) |-> IF j = i THEN items[n] ELSE items[j]]

\* erase_key_internal, the block emptied or kept: its pair is put back in d1_by_mx
\* with the iterators of its keys, or the block leaves d1
EraseReindex(unindexed, blk) ==
    IF blk.items # <<>>
    THEN SetIts([unindexed EXCEPT !.d1_by_mx = @ \cup {<<blk.mx, blk.id>>}],
                blk.items, <<blk.mx, blk.id>>)
    ELSE [unindexed EXCEPT !.d1 = SelectSeq(@, LAMBDA b : b.id # blk.id)]

\* erase_key_internal after pos.erase(it): blk is *kp.blk with the key swapped out
\* and recompute() applied
EraseFrom(erased, kp, blk) ==
    IF kp.inD0 THEN MonoSetBlock(erased, blk)
    ELSE IF kp.set_it \notin erased.d1_by_mx THEN [erased EXCEPT !.ub = "undefined"]
    ELSE EraseReindex(MonoSetBlock([erased EXCEPT !.d1_by_mx = @ \ {kp.set_it}], blk), blk)

erase_key_internal(ds, key) ==
    IF ds.ub # "none" \/ key \notin DOMAIN ds.pos THEN ds
    ELSE IF ds.pos[key].blk \notin MonoLive(ds)
    THEN [ds EXCEPT !.pos = MapErase(@, key), !.ub = "undefined"]
    ELSE EraseFrom([ds EXCEPT !.pos = MapErase(@, key)], ds.pos[key],
                   recompute([MonoBlockOf(ds, ds.pos[key].blk) EXCEPT
                                  !.items = SwapRemove(@, key)]))

\* d1_by_mx.lower_bound({val, nullptr}): the pairs not below it
LowerBound(ds, val) == {p \in ds.d1_by_mx : ~Cmp(p, <<val, 0>>, ds.address_order)}

\* Insert, sit == end(): a block is appended unless the last one is empty
InsertGrow(ds, val) ==
    IF LowerBound(ds, val) = {} /\ (ds.d1 = <<>> \/ ds.d1[Len(ds.d1)].items # <<>>)
    THEN [ds EXCEPT !.d1 = Append(@, MonoBlock(ds.next_id, <<>>)), !.next_id = @ + 1]
    ELSE ds

\* Insert: the pair sit designates once d1.back() is indexed
InsertSit(ds, val) ==
    IF LowerBound(ds, val) = {}
    THEN <<ds.d1[Len(ds.d1)].mx, ds.d1[Len(ds.d1)].id>>
    ELSE SetTypeOrder(LowerBound(ds, val), ds.address_order)[1]

\* Insert, the split of a block of more than M items: kept stays in target, splitBlk
\* follows it in d1, and only set_it is updated in pos
InsertSplit(placed, sit, kept, splitBlk) ==
    IF kept.id \notin {placed.d1[i].id : i \in DOMAIN placed.d1}
    THEN [placed EXCEPT !.ub = "undefined"]
    ELSE LET lit == CHOOSE i \in DOMAIN placed.d1 : placed.d1[i].id = kept.id
         IN SetIts(SetIts([placed EXCEPT
                              !.d1 = SubSeq(@, 1, lit - 1) \o <<kept, splitBlk>>
                                         \o SubSeq(@, lit + 1, Len(@)),
                              !.next_id = @ + 1,
                              !.d1_by_mx = ((@ \ {sit}) \cup {<<kept.mx, kept.id>>})
                                               \cup {<<splitBlk.mx, splitBlk.id>>}],
                          kept.items, <<kept.mx, kept.id>>),
                   splitBlk.items, <<splitBlk.mx, splitBlk.id>>)

\* Insert, no split: the pair of the block is replaced when its mx changed
InsertRecompute(placed, sit, blk) ==
    IF sit[1] # blk.mx
    THEN SetIts([MonoSetBlock(placed, blk) EXCEPT
                    !.d1_by_mx = (@ \ {sit}) \cup {<<blk.mx, blk.id>>}],
                blk.items, <<blk.mx, blk.id>>)
    ELSE MonoSetBlock(placed, blk)

\* Insert after target->items.push_back and pos[key] = ...; sorted is items after
\* nth_element
InsertPlaced(placed, sit, target, items, sorted) ==
    IF Len(items) > placed.M
    THEN InsertSplit(placed, sit,
                     recompute([target EXCEPT !.items = SubSeq(sorted, 1, Len(sorted) \div 2)]),
                     recompute(MonoBlock(placed.next_id,
                                         SubSeq(sorted, (Len(sorted) \div 2) + 1, Len(sorted)))))
    ELSE InsertRecompute(placed, sit, recompute([target EXCEPT !.items = items]))

InsertInto(indexed, sit, target, key, val) ==
    InsertPlaced([indexed EXCEPT !.pos = MapSet(@, key, [inD0 |-> FALSE, blk |-> target.id,
                                                         set_it |-> sit, val |-> val])],
                 sit, target, Append(target.items, Entry(key, val)),
                 StableSort(Append(target.items, Entry(key, val)),
                            Vals(Append(target.items, Entry(key, val)))))

InsertTarget(indexed, sit, key, val) ==
    IF sit[2] \notin MonoLive(indexed) THEN [indexed EXCEPT !.ub = "undefined"]
    ELSE InsertInto(indexed, sit, MonoBlockOf(indexed, sit[2]), key, val)

InsertGrown(grown, key, val) ==
    InsertTarget([grown EXCEPT !.d1_by_mx = @ \cup {InsertSit(grown, val)}],
                 InsertSit(grown, val), key, val)

InsertErased(del, key, val) ==
    IF del.ub # "none" THEN del ELSE InsertGrown(InsertGrow(del, val), key, val)

\* Insert(key, val)
MonoInsert(ds, key, val) ==
    IF ds.ub # "none" THEN ds
    ELSE IF key \in DOMAIN ds.pos /\ val >= ds.pos[key].val THEN ds
    ELSE InsertErased(erase_key_internal(ds, key), key, val)

\* the blocks of the two halves of partition_recursive
PartitionJoin(left, right) ==
    [blocks |-> left.blocks \o right.blocks, diverged |-> left.diverged \/ right.diverged]

\* partition_recursive(entries, start, end, blocks) on the range it is given: the
\* blocks appended, or diverged when the recursion never reaches its base case
RECURSIVE partition_recursive(_, _)
PartitionSorted(sorted, M) ==
    PartitionJoin(partition_recursive(SubSeq(sorted, 1, Len(sorted) \div 2), M),
                  partition_recursive(SubSeq(sorted, (Len(sorted) \div 2) + 1, Len(sorted)), M))
partition_recursive(entries, M) ==
    IF Len(entries) <= M \div 2
    THEN [blocks |-> <<entries>>, diverged |-> FALSE]
    ELSE IF Len(entries) \div 2 = 0 THEN [blocks |-> <<>>, diverged |-> TRUE]
    ELSE PartitionSorted(StableSort(entries, Vals(entries)), M)

\* best: the smallest value of every key of L
BestValues(L) ==
    [k \in {L[i].key : i \in DOMAIN L} |->
        SetMin({L[i].val : i \in {j \in DOMAIN L : L[j].key = k}})]

\* the loop over best that erases the keys the batch improves and collects ins
RECURSIVE CollectIns(_, _, _, _)
CollectIns(ds, best, keys, ins) ==
    IF keys = <<>> \/ ds.ub # "none" THEN [ds |-> ds, ins |-> ins]
    ELSE LET k == Head(keys)
             v == best[k]
         IN IF k \in DOMAIN ds.pos /\ v >= ds.pos[k].val
            THEN CollectIns(ds, best, Tail(keys), ins)
            ELSE CollectIns(erase_key_internal(ds, k), best, Tail(keys),
                            Append(ins, Entry(k, v)))

\* d0.emplace_front(block); pos[e.key] = {true, &blk, {}, e.val} for its items
EmplaceFront(ds, items) ==
    LET blk == recompute(MonoBlock(ds.next_id, items))
    IN [ds EXCEPT !.d0 = <<blk>> \o @, !.next_id = @ + 1,
                  !.pos = [k \in DOMAIN @ \cup {items[i].key : i \in DOMAIN items} |->
                              IF \E i \in DOMAIN items : items[i].key = k
                              THEN [inD0 |-> TRUE, blk |-> blk.id, set_it |-> <<0, 0>>,
                                    val |-> items[CHOOSE i \in DOMAIN items :
                                                      items[i].key = k].val]
                              ELSE @[k]]]

\* the blocks of new_blocks from rbegin() to rend(), each put in front of d0
RECURSIVE EmplaceFrontAll(_, _)
EmplaceFrontAll(ds, blocks) ==
    IF blocks = <<>> THEN ds
    ELSE EmplaceFrontAll(EmplaceFront(ds, blocks[Len(blocks)]),
                         SubSeq(blocks, 1, Len(blocks) - 1))

\* BatchPrepend once ins is collected
PrependBlocks(ds, parts) ==
    IF parts.diverged THEN [ds EXCEPT !.ub = "overflow"] ELSE EmplaceFrontAll(ds, parts.blocks)
PrependIns(ds, ins) ==
    IF ds.ub # "none" \/ ins = <<>> THEN ds
    ELSE IF Len(ins) <= ds.M THEN EmplaceFront(ds, ins)
    ELSE PrependBlocks(ds, partition_recursive(ins, ds.M))
PrependCollected(c) == PrependIns(c.ds, c.ins)

\* BatchPrepend(L); order is the iteration order of the unordered_map best
MonoBatchPrepend(ds, L, order) ==
    IF ds.ub # "none" \/ L = <<>> THEN ds
    ELSE PrependCollected(CollectIns(ds, BestValues(L),
                                     IterationOrder(DOMAIN BestValues(L), order), <<>>))

\* empty()
MonoEmpty(ds) ==
    /\ \A i \in DOMAIN ds.d0 : ds.d0[i].items = <<>>
    /\ \A i \in DOMAIN ds.d1 : ds.d1[i].items = <<>>

RECURSIVE AllItems(_)
AllItems(blocks) ==
    IF blocks = <<>> THEN <<>> ELSE Head(blocks).items \o AllItems(Tail(blocks))

\* the candidates of d0: whole blocks while fewer than M are collected
RECURSIVE CandD0(_, _, _)
CandD0(blocks, cand, M) ==
    IF blocks = <<>> \/ Len(cand) >= M THEN cand
    ELSE CandD0(Tail(blocks), cand \o Head(blocks).items, M)

\* the candidates of d1: whole blocks in the order of d1_by_mx while fewer than
\* 2M are collected; its entries are block ids
RECURSIVE CandD1(_, _, _, _)
CandD1(ds, entries, cand, M) ==
    IF entries = <<>> \/ Len(cand) >= 2 * M THEN cand
    ELSE CandD1(ds, Tail(entries), cand \o MonoBlockOf(ds, Head(entries)[2]).items, M)

RECURSIVE EraseKeys(_, _)
EraseKeys(ds, keys) ==
    IF keys = <<>> THEN ds ELSE EraseKeys(erase_key_internal(ds, Head(keys)), Tail(keys))

\* the rank of a candidate under cmp: by value, then by key
CandRank(cand) == [i \in DOMAIN cand |-> cand[i].val * 1000 + cand[i].key]

\* Pull, at most M entries: clear(); Initialize(M, B_bound); return {all_keys, B_bound}
PullAll(reset, all_keys) == [ds |-> reset, keys |-> all_keys, separator |-> reset.B_bound]

\* Pull once cand is collected; sorted is cand after nth_element
PullSelect(ds, sorted) ==
    [ds |-> EraseKeys(ds, EntryKeys(SubSeq(sorted, 1, ds.M))),
     keys |-> EntryKeys(SubSeq(sorted, 1, ds.M)), separator |-> sorted[ds.M + 1].val]
PullCandidates(ds, cand) ==
    IF Len(cand) <= ds.M
    THEN [ds |-> [ds EXCEPT !.ub = "undefined"], keys |-> <<>>, separator |-> ds.B_bound]
    ELSE PullSelect(ds, StableSort(cand, CandRank(cand)))
PullCollect(ds, entries) ==
    IF \E i \in DOMAIN entries : entries[i][2] \notin MonoLive(ds)
    THEN [ds |-> [ds EXCEPT !.ub = "undefined"], keys |-> <<>>, separator |-> ds.B_bound]
    ELSE PullCandidates(ds, CandD1(ds, entries, CandD0(ds.d0, <<>>, ds.M), ds.M))
PullKeys(ds, all_keys) ==
    IF all_keys = <<>> THEN [ds |-> ds, keys |-> <<>>, separator |-> ds.B_bound]
    ELSE IF Len(all_keys) <= ds.M
    THEN PullAll(MonoInitialize(MonoClear(ds), MonoClear(ds).M, MonoClear(ds).B_bound),
                 all_keys)
    ELSE PullCollect(ds, SetTypeOrder(ds.d1_by_mx, ds.address_order))

\* Pull(): the structure after the call, the keys and the bound returned
MonoPull(ds) ==
    IF ds.ub # "none" THEN [ds |-> ds, keys |-> <<>>, separator |-> ds.B_bound]
    ELSE PullKeys(ds, EntryKeys(AllItems(ds.d0) \o AllItems(ds.d1)))

(***************************************************************************)
(* The single-file structure under arbitrary calls that keep the callers'  *)
(* contract: inserted values are below B, and the values of a batch are    *)
(* below every value stored.  init keeps the arguments of Initialize.      *)
(***************************************************************************)
MonoEntries == {Entry(k, v) : k \in PODSKeys, v \in PODSVals}
MonoBatches == UNION {[1..n -> MonoEntries] : n \in 1..PODSMaxBatch}

MonoContents(ds) ==
    LET all == AllItems(ds.d0) \o AllItems(ds.d1) IN {all[i] : i \in DOMAIN all}

\* block addresses renamed to their rank among the blocks alive, which keeps
\* their order; 0 for a block that is gone
MonoRenamed(ds) ==
    LET live == MonoLive(ds)
        NewId(id) == IF id \in live THEN Cardinality({j \in live : j <= id}) ELSE 0
        NewIt(it) == <<it[1], NewId(it[2])>>
    IN [ds EXCEPT !.d0 = [i \in DOMAIN @ |-> [@[i] EXCEPT !.id = NewId(@)]],
                  !.d1 = [i \in DOMAIN @ |-> [@[i] EXCEPT !.id = NewId(@)]],
                  !.d1_by_mx = {NewIt(it) : it \in @},
                  !.pos = [k \in DOMAIN @ |->
                              [inD0 |-> @[k].inD0, blk |-> NewId(@[k].blk),
                               set_it |-> IF @[k].inD0 THEN <<0, 0>> ELSE NewIt(@[k].set_it),
                               val |-> @[k].val]],
                  !.next_id = Cardinality(live) + 1]

MPODSNew(M, B, address_order) ==
    [ds |-> MonoInitialize(MonoNew(address_order), M, B), op |-> "Initialize",
     init |-> [M |-> M, B |-> B], pulled |-> PODSNoResult]

MPODSStep(op, ds, pulled) ==
    /\ mpods.ds.ub = "none"
    /\ Len(ds.d0) + Len(ds.d1) <= PODSMaxBlocks
    /\ mpods' = [mpods EXCEPT !.ds = MonoRenamed(ds), !.op = op, !.pulled = pulled]
    /\ UNCHANGED notMPODS

MPODSInsert(key, val) ==
    /\ val < mpods.init.B
    /\ MPODSStep("Insert", MonoInsert(mpods.ds, key, val), PODSNoResult)

MPODSBatchPrepend(L, order) ==
    /\ \A i \in DOMAIN L : \A e \in MonoContents(mpods.ds) : L[i].val < e.val
    /\ MPODSStep("BatchPrepend", MonoBatchPrepend(mpods.ds, L, order), PODSNoResult)

MPODSPull ==
    LET r == MonoPull(mpods.ds)
    IN MPODSStep("Pull", r.ds, [keys |-> r.keys, separator |-> r.separator,
                                before |-> MonoContents(mpods.ds)])

MPODSNext ==
    \/ \E k \in PODSKeys, v \in PODSVals : MPODSInsert(k, v)
    \/ \E L \in MonoBatches, order \in UnorderedOrders : MPODSBatchPrepend(L, order)
    \/ MPODSPull

MonoPulledKeys == {mpods.pulled.keys[i] : i \in DOMAIN mpods.pulled.keys}

\* C6: when the structure holds at most M elements (none included), Pull returns
\* all of them, leaves the structure empty, and returns as separator the upper
\* bound B that was passed to Initialize
C6_PullReturnsAllAndB ==
    (mpods.op = "Pull" /\ Cardinality(mpods.pulled.before) <= mpods.init.M)
        => /\ mpods.ds.ub = "none"
           /\ MonoPulledKeys = {e.key : e \in mpods.pulled.before}
           /\ Len(mpods.pulled.keys) = Cardinality(mpods.pulled.before)
           /\ MonoEmpty(mpods.ds)
           /\ mpods.pulled.separator = mpods.init.B

(***************************************************************************)
(* The modular SSSP engine of faster_dijkstra/duan: ComputeSSSP, BMSSP,    *)
(* BaseCase, and FindPivots (src/duan_sssp/src/algorithms).  A graph is a  *)
(* function from the vertices 0..n-1 to the sequence of their edges        *)
(* [to, weight]; weights and distances are integers, INF absorbs addition. *)
(* Every operator takes the labels and returns them with its result; ub    *)
(* tells how a call ended when it did not return.                          *)
(***************************************************************************)
INT_MAX_HALF == 1073741823

GraphSize(graph) == Cardinality(DOMAIN graph)
InSeq(x, s) == \E i \in DOMAIN s : s[i] = x
Range(s) == {s[i] : i \in DOMAIN s}

\* labels.dist[u] + edge.weight in long double arithmetic
DistAdd(d, w) == IF d >= INF THEN INF ELSE d + w
\* |a - b| < FP_EPSILON: false when a or b is infinite
DistEqual(a, b) == a < INF /\ b < INF /\ a = b

\* Labels(n)
Labels(n) ==
    [dist |-> [v \in 0..(n - 1) |-> INF],
     pred |-> [v \in 0..(n - 1) |-> -1],
     hops |-> [v \in 0..(n - 1) |-> INT_MAX_HALF]]

\* the labels after reset(n) with dist[source] = 0 and hops[source] = 0
SourceLabels(n, source) ==
    [dist |-> [v \in 0..(n - 1) |-> IF v = source THEN 0 ELSE INF],
     pred |-> [v \in 0..(n - 1) |-> -1],
     hops |-> [v \in 0..(n - 1) |-> IF v = source THEN 0 ELSE INT_MAX_HALF]]

lex_better(u, old_pred, new_hops, old_hops) ==
    IF new_hops # old_hops THEN new_hops < old_hops ELSE u < old_pred

\* the decision of a relaxation of (u, v) with new_dist <= dist[v]
should_update(labels, u, v, new_dist) ==
    IF new_dist < labels.dist[v] THEN TRUE
    ELSE lex_better(u, labels.pred[v], labels.hops[u] + 1, labels.hops[v])

\* the three label writes of an update
UpdateLabels(labels, u, v, new_dist) ==
    [dist |-> [x \in DOMAIN labels.dist |-> IF x = v THEN new_dist ELSE labels.dist[x]],
     pred |-> [x \in DOMAIN labels.pred |-> IF x = v THEN u ELSE labels.pred[x]],
     hops |-> [x \in DOMAIN labels.hops |->
                  IF x = v THEN labels.hops[u] + 1 ELSE labels.hops[x]]]

\* try_relax without its early return on new_dist > dist[v]
try_relax_unbounded(labels, u, v, new_dist) ==
    IF should_update(labels, u, v, new_dist)
    THEN [updated |-> TRUE, labels |-> UpdateLabels(labels, u, v, new_dist)]
    ELSE [updated |-> FALSE, labels |-> labels]

\* try_relax(labels, u, v, new_dist): whether the labels were updated, and the labels
try_relax(labels, u, v, new_dist) ==
    IF new_dist > labels.dist[v] THEN [updated |-> FALSE, labels |-> labels]
    ELSE IF should_update(labels, u, v, new_dist)
    THEN [updated |-> TRUE, labels |-> UpdateLabels(labels, u, v, new_dist)]
    ELSE [updated |-> FALSE, labels |-> labels]

\* Params::compute(n): floor(log2(max(2, n))^(1/3)) and floor(log2(max(2, n))^(2/3)),
\* at least 1, for n below 256 (log2(n) reaches 2^(3/2) at n = 8 and 3^(3/2) at n = 37)
ParamsCompute(n) ==
    [k |-> 1, t |-> IF n < 8 THEN 1 ELSE IF n < 37 THEN 2 ELSE 3]

\* ceil(log2(n)) for n >= 1
RECURSIVE CeilLog2(_)
CeilLog2(n) == IF n <= 1 THEN 0 ELSE 1 + CeilLog2((n + 1) \div 2)

\* ComputeInitialLayer(n, params): max(1, ceil(log2(n) / t)) for n > 1
ComputeInitialLayer(n, params) ==
    IF n <= 1 THEN 0 ELSE Max2(1, (CeilLog2(n) + params.t - 1) \div params.t)

(* FindPivots *)

\* the body of the inner loop of RelaxLayer for one edge; r is [labels, W_next]
RelaxLayerEdge(r, B, v, new_dist, relaxed) ==
    [labels |-> relaxed.labels,
     W_next |-> IF relaxed.updated /\ new_dist < B THEN r.W_next \cup {v} ELSE r.W_next]

RECURSIVE RelaxLayerEdges(_, _, _, _)
RelaxLayerEdges(r, B, u, edges) ==
    IF edges = <<>> THEN r
    ELSE RelaxLayerEdges(
             RelaxLayerEdge(r, B, Head(edges).to, DistAdd(r.labels.dist[u], Head(edges).weight),
                            try_relax(r.labels, u, Head(edges).to,
                                      DistAdd(r.labels.dist[u], Head(edges).weight))),
             B, u, Tail(edges))

\* RelaxLayer(graph, labels, B, W_prev, W_next)
RECURSIVE RelaxLayer(_, _, _, _)
RelaxLayer(graph, r, B, W_prev) ==
    IF W_prev = <<>> THEN r
    ELSE RelaxLayer(graph,
                    IF Head(W_prev) \in DOMAIN graph
                    THEN RelaxLayerEdges(r, B, Head(W_prev), graph[Head(W_prev)]) ELSE r,
                    B, Tail(W_prev))

\* BuildForest(graph, labels, W_set): forest[u] is the sequence of the children of u
BuildForest(graph, labels, W_set) ==
    [u \in W_set \cap DOMAIN graph |->
        SelectSeq(graph[u],
                  LAMBDA edge : /\ edge.to \in W_set
                                /\ DistEqual(labels.dist[edge.to],
                                             DistAdd(labels.dist[u], edge.weight))
                                /\ labels.pred[edge.to] = u)]

\* the vertices the depth-first search from the vertices of `from` pushes
RECURSIVE ForestReach(_, _, _)
ForestReach(forest, from, seen) ==
    IF from \subseteq seen THEN seen
    ELSE ForestReach(forest,
                     UNION {{forest[v][i].to : i \in DOMAIN forest[v]} :
                                v \in (from \ seen) \cap DOMAIN forest},
                     seen \cup from)

\* a cycle of the forest below a root: the search of ComputeSubtreeSizes pushes
\* its vertices again and again and never ends
ForestCyclic(forest, roots) ==
    \E v \in ForestReach(forest, roots, {}) \cap DOMAIN forest :
        v \in ForestReach(forest, {forest[v][i].to : i \in DOMAIN forest[v]}, {})

\* ComputeSubtreeSizes(forest, roots): the size computed for vertex v
RECURSIVE SubtreeSize(_, _)
RECURSIVE SubtreeSizeSum(_, _, _)
SubtreeSizeSum(forest, children, i) ==
    IF i > Len(children) THEN 0
    ELSE SubtreeSize(forest, children[i].to) + SubtreeSizeSum(forest, children, i + 1)
SubtreeSize(forest, v) ==
    IF v \in DOMAIN forest THEN 1 + SubtreeSizeSum(forest, forest[v], 1) ELSE 1

\* IdentifyPivots(S, subtree_sizes, k)
IdentifyPivots(S, forest, k) == SelectSeq(S, LAMBDA u : SubtreeSize(forest, u) >= k)

\* the end of FindPivots::Execute when there was no early exit
FindPivotsForest(labels, S, k, W_set, forest, order) ==
    IF ForestCyclic(forest, Range(S))
    THEN [P |-> <<>>, W |-> IterationOrder(W_set, order), labels |-> labels, ub |-> "overflow"]
    ELSE [P |-> IdentifyPivots(S, forest, k), W |-> IterationOrder(W_set, order),
          labels |-> labels, ub |-> "none"]

RECURSIVE FindPivotsLoop(_, _, _, _, _, _, _, _, _)
\* the body of the loop after RelaxLayer returned r
FindPivotsLayer(graph, r, B, S, k, i, W_set, order) ==
    IF Cardinality(W_set) > k * Len(S)
    THEN [P |-> S, W |-> IterationOrder(W_set, order), labels |-> r.labels, ub |-> "none"]
    ELSE IF r.W_next = {}
    THEN FindPivotsForest(r.labels, S, k, W_set, BuildForest(graph, r.labels, W_set), order)
    ELSE FindPivotsLoop(graph, r.labels, B, S, k, i + 1, W_set,
                        IterationOrder(r.W_next, order), order)

FindPivotsRelaxed(graph, r, B, S, k, i, W_set, order) ==
    FindPivotsLayer(graph, r, B, S, k, i, W_set \cup r.W_next, order)

FindPivotsLoop(graph, labels, B, S, k, i, W_set, W_prev, order) ==
    IF i > k
    THEN FindPivotsForest(labels, S, k, W_set, BuildForest(graph, labels, W_set), order)
    ELSE FindPivotsRelaxed(graph, RelaxLayer(graph, [labels |-> labels, W_next |-> {}], B, W_prev),
                           B, S, k, i, W_set, order)

\* FindPivots::Execute(graph, labels, B, S, k)
FindPivots_Execute(graph, labels, B, S, k, order) ==
    IF S = <<>> THEN [P |-> <<>>, W |-> <<>>, labels |-> labels, ub |-> "none"]
    ELSE FindPivotsLoop(graph, labels, B, S, k, 1, Range(S), S, order)

(* BaseCase *)

\* a is above b in the min-heap (b > a by HeapElement::operator>)
HeapBefore(a, b) ==
    IF a.dist # b.dist THEN a.dist < b.dist
    ELSE IF a.hops # b.hops THEN a.hops < b.hops
    ELSE a.vertex < b.vertex

\* the position of heap.top() in the sequence of the elements pushed
HeapTop(heap) == CHOOSE i \in DOMAIN heap : \A j \in DOMAIN heap : ~HeapBefore(heap[j], heap[i])

\* the body of the relaxation loop of BaseCase for one edge; c is [labels, heap, U_0]
\* (in_heap decides nothing: both of its branches push the same element)
BaseCaseRelaxEdge(c, B, u, v, new_dist) ==
    IF new_dist <= c.labels.dist[v] /\ new_dist < B /\ should_update(c.labels, u, v, new_dist)
    THEN [c EXCEPT !.labels = UpdateLabels(c.labels, u, v, new_dist),
                   !.heap = Append(@, [vertex |-> v, dist |-> new_dist,
                                       hops |-> c.labels.hops[u] + 1])]
    ELSE c

RECURSIVE BaseCaseRelax(_, _, _, _)
BaseCaseRelax(c, B, u, edges) ==
    IF edges = <<>> THEN c
    ELSE BaseCaseRelax(BaseCaseRelaxEdge(c, B, u, Head(edges).to,
                                         DistAdd(c.labels.dist[u], Head(edges).weight)),
                       B, u, Tail(edges))

RECURSIVE BaseCaseLoop(_, _, _, _, _)
\* the body of the loop for the element popped
BaseCaseSettle(graph, c, B, x, k, min_elem) ==
    IF (InSeq(min_elem.vertex, c.U_0) /\ min_elem.vertex # x)
           \/ min_elem.dist > c.labels.dist[min_elem.vertex]
    THEN BaseCaseLoop(graph, c, B, x, k)
    ELSE BaseCaseLoop(graph,
                      BaseCaseRelax([c EXCEPT !.U_0 = IF min_elem.vertex # x
                                                      THEN Append(@, min_elem.vertex) ELSE @],
                                    B, min_elem.vertex,
                                    IF min_elem.vertex \in DOMAIN graph
                                    THEN graph[min_elem.vertex] ELSE <<>>),
                      B, x, k)

BaseCasePop(graph, c, B, x, k, top) ==
    BaseCaseSettle(graph, [c EXCEPT !.heap = SeqRemoveAt(c.heap, top)], B, x, k, c.heap[top])

BaseCaseLoop(graph, c, B, x, k) ==
    IF c.heap # <<>> /\ Len(c.U_0) < k + 1
    THEN BaseCasePop(graph, c, B, x, k, HeapTop(c.heap))
    ELSE c

\* BaseCase that returns every settled vertex, the farthest ones included
BaseCaseResult_unfiltered(c, B, k, max_dist) ==
    [b |-> IF Len(c.U_0) <= k THEN B ELSE max_dist, U |-> c.U_0, labels |-> c.labels,
     ub |-> "none"]

\* the result of BaseCase for the boundary max_dist of the case |U_0| > k
BaseCaseResult(c, B, k, max_dist) ==
    IF Len(c.U_0) <= k
    THEN [b |-> B, U |-> c.U_0, labels |-> c.labels, ub |-> "none"]
    ELSE [b |-> max_dist, U |-> SelectSeq(c.U_0, LAMBDA v : c.labels.dist[v] < max_dist),
          labels |-> c.labels, ub |-> "none"]

BaseCaseFinish(c, B, k) ==
    BaseCaseResult(c, B, k, SetMax({c.labels.dist[v] : v \in Range(c.U_0)}))

\* BaseCase::Execute(graph, labels, B, S, k); assert(S.size() == 1) aborts the
\* program, and labels.dist[x] for an x that is no index of labels is undefined
BaseCase_Execute(graph, labels, B, S, k) ==
    IF Len(S) # 1 THEN [b |-> B, U |-> <<>>, labels |-> labels, ub |-> "abort"]
    ELSE IF S[1] \notin DOMAIN labels.dist
    THEN [b |-> B, U |-> <<>>, labels |-> labels, ub |-> "undefined"]
    ELSE BaseCaseFinish(
             BaseCaseLoop(graph,
                          [labels |-> labels, U_0 |-> <<S[1]>>,
                           heap |-> <<[vertex |-> S[1], dist |-> labels.dist[S[1]],
                                       hops |-> labels.hops[S[1]]]>>],
                          B, S[1], k),
             B, k)

(* BMSSP *)

\* the body of the inner loop of RelaxAndClassify for one edge; c is [labels, DS, K]
RelaxAndClassifyEdge(c, u, v, new_dist, b_i, B_i, B) ==
    IF new_dist <= c.labels.dist[v] /\ should_update(c.labels, u, v, new_dist)
    THEN IF new_dist >= B_i /\ new_dist < B
         THEN [c EXCEPT !.labels = UpdateLabels(c.labels, u, v, new_dist),
                        !.DS = Insert(c.DS, v, new_dist)]
         ELSE IF new_dist >= b_i /\ new_dist < B_i
         THEN [c EXCEPT !.labels = UpdateLabels(c.labels, u, v, new_dist),
                        !.K = Append(@, [key |-> v, value |-> new_dist])]
         ELSE [c EXCEPT !.labels = UpdateLabels(c.labels, u, v, new_dist)]
    ELSE c

RECURSIVE RelaxAndClassifyEdges(_, _, _, _, _, _)
RelaxAndClassifyEdges(c, u, edges, b_i, B_i, B) ==
    IF edges = <<>> THEN c
    ELSE RelaxAndClassifyEdges(
             RelaxAndClassifyEdge(c, u, Head(edges).to,
                                  DistAdd(c.labels.dist[u], Head(edges).weight), b_i, B_i, B),
             u, Tail(edges), b_i, B_i, B)

\* RelaxAndClassify(graph, labels, U_i, b_i, B_i, B, DS, K)
RECURSIVE RelaxAndClassify(_, _, _, _, _, _)
RelaxAndClassify(graph, c, U_i, b_i, B_i, B) ==
    IF U_i = <<>> THEN c
    ELSE RelaxAndClassify(graph,
                          IF Head(U_i) \in DOMAIN graph
                          THEN RelaxAndClassifyEdges(c, Head(U_i), graph[Head(U_i)], b_i, B_i, B)
                          ELSE c,
                          Tail(U_i), b_i, B_i, B)

\* CollectVerticesInRange(S_i, labels, b_i, B_i, K)
RECURSIVE CollectVerticesInRange(_, _, _, _, _)
CollectVerticesInRange(S_i, labels, b_i, B_i, K) ==
    IF S_i = <<>> THEN K
    ELSE CollectVerticesInRange(
             Tail(S_i), labels, b_i, B_i,
             IF labels.dist[Head(S_i)] >= b_i /\ labels.dist[Head(S_i)] < B_i
             THEN Append(K, [key |-> Head(S_i), value |-> labels.dist[Head(S_i)]]) ELSE K)

\* Step 3 of BMSSP::Execute
RECURSIVE InsertPivots(_, _, _)
InsertPivots(DS, P, labels) ==
    IF P = <<>> THEN DS
    ELSE InsertPivots(Insert(DS, Head(P), labels.dist[Head(P)]), Tail(P), labels)

\* Step 4 of BMSSP::Execute: b_0
InitialBoundary(P, labels, B) ==
    IF P = <<>> THEN B ELSE SetMin({labels.dist[x] : x \in Range(P)} \cup {INF})

\* the iterations of the main loop of one BMSSP call that the model follows
DuanMaxIterations == 12

\* what a caller of BMSSP::Execute(l, B, ...) can observe when the call returns r:
\* the bound given, the bound returned and dist[v] of every v of the returned U
BMSSPCall(l, B, r) ==
    [l |-> l, B |-> B, b |-> r.b, dist |-> [i \in DOMAIN r.U |-> r.labels.dist[r.U[i]]]]

\* a call that does not return; calls are the calls below it that did
BMSSPFailed(labels, B, ub, calls) ==
    [b |-> B, U |-> <<>>, labels |-> labels, ub |-> ub, calls |-> calls]

\* r with the calls that returned during it: those below it, then itself
BMSSPReturned(l, B, r, calls) ==
    [b |-> r.b, U |-> r.U, labels |-> r.labels, ub |-> r.ub,
     calls |-> IF r.ub = "none" THEN Append(calls, BMSSPCall(l, B, r)) ELSE calls]

\* Step 6 of BMSSP::Execute
BMSSPFinish(c, l, B, W, b) ==
    BMSSPReturned(l, B,
                  [b |-> b, U |-> c.U \o SelectSeq(W, LAMBDA x : c.labels.dist[x] < b),
                   labels |-> c.labels, ub |-> "none"],
                  c.calls)

RECURSIVE BMSSP_Execute(_, _, _, _, _, _, _)
RECURSIVE BMSSPLoop(_, _, _, _, _, _, _, _)

\* the end of an iteration: BatchPrepend of K, b_i = b_i_new
BMSSPPrepend(graph, c, rec, rc, K, l, B, W, params, order, n) ==
    BMSSPLoop(graph,
              [labels |-> rc.labels,
               DS |-> IF K # <<>> THEN BatchPrepend(rc.DS, K, order) ELSE rc.DS,
               b_i |-> rec.b, U |-> c.U \o rec.U, calls |-> c.calls \o rec.calls],
              l, B, W, params, order, n - 1)

\* an iteration after the recursive call returned rec and RelaxAndClassify returned rc
BMSSPClassified(graph, c, pulled, rec, rc, l, B, W, params, order, n) ==
    BMSSPPrepend(graph, c, rec, rc,
                 CollectVerticesInRange(pulled.keys, rc.labels, rec.b, pulled.separator, rc.K),
                 l, B, W, params, order, n)

\* an iteration after the recursive call returned rec
BMSSPRecursed(graph, c, pulled, rec, l, B, W, params, order, n) ==
    IF rec.ub # "none" THEN BMSSPFailed(rec.labels, B, rec.ub, c.calls \o rec.calls)
    ELSE BMSSPClassified(graph, c, pulled, rec,
                         RelaxAndClassify(graph, [labels |-> rec.labels, DS |-> pulled.ds,
                                                  K |-> <<>>],
                                          rec.U, rec.b, pulled.separator, B),
                         l, B, W, params, order, n)

\* an iteration after Pull returned pulled
BMSSPPulled(graph, c, pulled, l, B, W, params, order, n) ==
    IF pulled.ds.ub # "none" THEN BMSSPFailed(c.labels, B, pulled.ds.ub, c.calls)
    ELSE BMSSPRecursed(graph, c, pulled,
                       BMSSP_Execute(graph, c.labels, l - 1, pulled.separator, pulled.keys,
                                     params, order),
                       l, B, W, params, order, n)

\* Step 5 of BMSSP::Execute; c is [labels, DS, b_i, U] and the calls that returned
BMSSPLoop(graph, c, l, B, W, params, order, n) ==
    IF c.DS.ub # "none" THEN BMSSPFailed(c.labels, B, c.DS.ub, c.calls)
    ELSE IF Len(c.U) < params.k * Pow2(l * params.t) /\ ~empty(c.DS)
    THEN IF n = 0 THEN BMSSPFailed(c.labels, B, "unfinished", c.calls)
         ELSE BMSSPPulled(graph, c, Pull(c.DS), l, B, W, params, order, n)
    ELSE BMSSPFinish(c, l, B, W, Min2(c.b_i, B))

\* Steps 2 to 6 of BMSSP::Execute, after FindPivots returned pivots
BMSSPPivots(graph, pivots, l, B, params, order) ==
    IF pivots.ub # "none" THEN BMSSPFailed(pivots.labels, B, pivots.ub, <<>>)
    ELSE BMSSPLoop(graph,
                   [labels |-> pivots.labels,
                    DS |-> InsertPivots(Initialize(Pow2((l - 1) * params.t), B), pivots.P,
                                        pivots.labels),
                    b_i |-> InitialBoundary(pivots.P, pivots.labels, B), U |-> <<>>,
                    calls |-> <<>>],
                   l, B, pivots.W, params, order, DuanMaxIterations)

\* BMSSP::Execute(graph, labels, l, B, S, params)
BMSSP_Execute(graph, labels, l, B, S, params, order) ==
    IF l = 0 THEN BMSSPReturned(l, B, BaseCase_Execute(graph, labels, B, S, params.k), <<>>)
    ELSE BMSSPPivots(graph, FindPivots_Execute(graph, labels, B, S, params.k, order),
                     l, B, params, order)

\* DuanSSSP::ComputeSSSP(graph, source)
ComputeSSSP(graph, source, order) ==
    BMSSP_Execute(graph,
                  SourceLabels(GraphSize(graph), source),
                  ComputeInitialLayer(GraphSize(graph), ParamsCompute(GraphSize(graph))),
                  INF, <<source>>, ParamsCompute(GraphSize(graph)), order)

(***************************************************************************)
(* The driver on every graph of at most DuanMaxN vertices and              *)
(* DuanMaxEdges edges with weights 0..DuanMaxWeight, from every source.    *)
(***************************************************************************)
DuanMaxN == 3
DuanMaxLevel == 2
DuanMaxEdges == 2
DuanMaxWeight == 1

EdgeTriples(n, W) == (0..(n - 1)) \X (0..(n - 1)) \X W

\* the sets of at most m edges
RECURSIVE EdgeSets(_, _)
EdgeSets(T, m) ==
    IF m = 0 THEN {{}}
    ELSE EdgeSets(T, m - 1) \cup {E \cup {e} : E \in EdgeSets(T, m - 1), e \in T}

\* the adjacency lists of the edges E, each in the order of (to, weight)
AdjacencyOf(E, u) ==
    LET out == {e \in E : e[1] = u}
        rank(e) == e[2] * INF + e[3]
        sorted == Ascending({rank(e) : e \in out})
    IN [i \in DOMAIN sorted |-> [to |-> sorted[i] \div INF, weight |-> sorted[i] % INF]]
GraphOf(n, E) == [u \in 0..(n - 1) |-> AdjacencyOf(E, u)]

\* the true shortest-path distances: n - 1 rounds of relaxing every edge
RECURSIVE ShortestRounds(_, _, _)
ShortestRounds(graph, d, rounds) ==
    IF rounds = 0 THEN d
    ELSE ShortestRounds(
             graph,
             [v \in DOMAIN graph |->
                 SetMin({d[v]} \cup UNION {{d[u] + graph[u][i].weight :
                                                i \in {j \in DOMAIN graph[u] : graph[u][j].to = v}} :
                                               u \in {x \in DOMAIN graph : d[x] < INF}})],
             rounds - 1)
ShortestDistances(graph, source) ==
    ShortestRounds(graph, [v \in DOMAIN graph |-> IF v = source THEN 0 ELSE INF],
                   GraphSize(graph))

DuanNoResult == [b |-> 0, U |-> <<>>, labels |-> Labels(0), ub |-> "none", calls |-> <<>>]

DuanNew(graph, source, order) ==
    [op |-> "input", graph |-> graph, source |-> source, order |-> order,
     result |-> DuanNoResult]

DuanInputs ==
    UNION {{DuanNew(GraphOf(n, E), source, order) :
                E \in EdgeSets(EdgeTriples(n, 0..DuanMaxWeight), DuanMaxEdges),
                source \in 0..(n - 1), order \in UnorderedOrders} : n \in 1..DuanMaxN}

DuanComputeSSSP ==
    /\ duan.op = "input"
    /\ duan' = [duan EXCEPT !.op = "ComputeSSSP",
                            !.result = ComputeSSSP(duan.graph, duan.source, duan.order)]
    /\ UNCHANGED notDuan

\* the bounds of a direct call of BMSSP::Execute from the source labels; each is
\* above dist[source] = 0, as the bound of a call is above the labels of its S
DuanMaxBound == 2
DuanBounds == (1..DuanMaxBound) \cup {INF}

\* the source sets of a direct call: the source alone or with one more vertex
DuanSourceSets(n, source) ==
    {<<source>>} \cup {<<source, x>> : x \in (0..(n - 1)) \ {source}}

\* the labels after reset with dist[x] = 0 and hops[x] = 0 for every x of S
SourcesLabels(n, S) ==
    [dist |-> [v \in 0..(n - 1) |-> IF InSeq(v, S) THEN 0 ELSE INF],
     pred |-> [v \in 0..(n - 1) |-> -1],
     hops |-> [v \in 0..(n - 1) |-> IF InSeq(v, S) THEN 0 ELSE INT_MAX_HALF]]

\* BMSSP::Execute(graph, labels, l, B, S, params) on the labels after reset with
\* dist = 0 on S, as test_bmssp.cpp calls it for S = {0}; at level 0 S is one vertex
DuanBMSSP(l, B, S) ==
    /\ duan.op = "input"
    /\ l = 0 => Len(S) = 1
    /\ duan' = [duan EXCEPT !.op = "BMSSP",
                            !.result = BMSSP_Execute(
                                duan.graph, SourcesLabels(GraphSize(duan.graph), S),
                                l, B, S, ParamsCompute(GraphSize(duan.graph)), duan.order)]
    /\ UNCHANGED notDuan

DuanNext ==
    \/ DuanComputeSSSP
    \/ /\ duan.op = "input"
       /\ \E l \in 0..DuanMaxLevel, B \in DuanBounds,
              S \in DuanSourceSets(GraphSize(duan.graph), duan.source) : DuanBMSSP(l, B, S)

\* C1: whenever ComputeSSSP returns, dist[source] = 0 and dist[v] is the true
\* shortest-path distance from the source to v, INF for an unreachable v
C1_ComputeSSSPTrueDistances ==
    (duan.op = "ComputeSSSP" /\ duan.result.ub = "none")
        => /\ duan.result.labels.dist[duan.source] = 0
           /\ \A v \in DOMAIN duan.graph :
                  duan.result.labels.dist[v] = ShortestDistances(duan.graph, duan.source)[v]

\* every call of calls returned b <= B and a set U with dist[v] < b for every v of it
CallsWithinBound(calls) ==
    \A i \in DOMAIN calls :
        /\ calls[i].b <= calls[i].B
        /\ \A j \in DOMAIN calls[i].dist : calls[i].dist[j] < calls[i].b

(***************************************************************************)
(* The single-file SSSP engine of                                          *)
(* faster_dijkstra/Duan_deterministic_sssp.cpp: DegreeReduction, DMSY_SSSP *)
(* and duan_shortest_paths_original_graph.  The edges of the input are a   *)
(* sequence of triples <<u, v, w>>; an edge of the transformed graph is    *)
(* [to, w].  Its Labels and lex_better are those of the modular engine,    *)
(* with dist for db.  this holds the members of DMSY_SSSP that a run       *)
(* leaves alone (G, N, s, k, t) and the two orders the build decides:      *)
(* that of its unordered containers and that of its block addresses.       *)
(***************************************************************************)

(* DegreeReduction *)

\* nbr[v] after the first loop of build
Nbr(edges, v) ==
    {edges[i][2] : i \in {j \in DOMAIN edges : edges[j][1] = v}}
        \cup {edges[i][1] : i \in {j \in DOMAIN edges : edges[j][2] = v}}

\* the keys of slot_id[v]
SlotKeys(edges, v) == IF Nbr(edges, v) = {} THEN {v} ELSE Nbr(edges, v)

\* the value of Np when the second loop of build reaches vertex v
RECURSIVE SlotBase(_, _)
SlotBase(edges, v) ==
    IF v = 0 THEN 0 ELSE SlotBase(edges, v - 1) + Cardinality(SlotKeys(edges, v - 1))

\* slot_id[v][w] for a key w of slot_id[v]
slot_id(edges, v, w) == SlotBase(edges, v) + Cardinality({x \in SlotKeys(edges, v) : x < w})

rep_of_orig(edges, v) == slot_id(edges, v, SetMin(SlotKeys(edges, v)))

\* the edge of slot a to the next slot of its vertex in the cycle of zero weight
CycleEdge(edges, v, w) ==
    [to |-> IF \E x \in SlotKeys(edges, v) : x > w
            THEN slot_id(edges, v, SetMin({x \in SlotKeys(edges, v) : x > w}))
            ELSE slot_id(edges, v, SetMin(SlotKeys(edges, v))),
     w |-> 0]

\* the edges that the last loop of build appends to Gt[a]
RECURSIVE SlotEdges(_, _, _)
SlotEdges(edges, a, i) ==
    IF i > Len(edges) THEN <<>>
    ELSE IF slot_id(edges, edges[i][1], edges[i][2]) = a
    THEN <<[to |-> slot_id(edges, edges[i][2], edges[i][1]), w |-> edges[i][3]]>>
             \o SlotEdges(edges, a, i + 1)
    ELSE SlotEdges(edges, a, i + 1)

\* build(n, edges): Gt
Gt(n, edges) ==
    [a \in 0..(SlotBase(edges, n) - 1) |->
        LET v == CHOOSE x \in 0..(n - 1) :
                     SlotBase(edges, x) <= a /\ a < SlotBase(edges, x + 1)
            w == CHOOSE x \in SlotKeys(edges, v) : slot_id(edges, v, x) = a
        IN <<CycleEdge(edges, v, w)>> \o SlotEdges(edges, a, 1)]

(* DMSY_SSSP *)

\* DMSY_SSSP(Gt, s_): the members a run leaves alone, and L
DMSYThis(G, s_, order, address_order) ==
    [G |-> G, N |-> GraphSize(G), s |-> s_,
     k |-> ParamsCompute(GraphSize(G)).k, t |-> ParamsCompute(GraphSize(G)).t,
     order |-> order, address_order |-> address_order]
DMSYLabels(G, s_) == SourceLabels(GraphSize(G), s_)

\* changed / updated of a relaxation of (u, v) to the distance nd
Changed(L, u, v, nd) == nd <= L.dist[v] /\ should_update(L, u, v, nd)

\* the body of the inner loop of FindPivots for one edge; c is [L, W, Wi_next]
PivotEdge(c, B, u, v, nd) ==
    IF c.L.dist[u] = INF_LD \/ ~Changed(c.L, u, v, nd) THEN c
    ELSE IF nd < B
    THEN [c EXCEPT !.L = UpdateLabels(c.L, u, v, nd), !.Wi_next = Append(@, v),
                   !.W = IF InSeq(v, c.W) THEN c.W ELSE Append(c.W, v)]
    ELSE [c EXCEPT !.L = UpdateLabels(c.L, u, v, nd)]

RECURSIVE PivotEdges(_, _, _, _)
PivotEdges(c, B, u, edges) ==
    IF edges = <<>> THEN c
    ELSE PivotEdges(PivotEdge(c, B, u, Head(edges).to, DistAdd(c.L.dist[u], Head(edges).w)),
                    B, u, Tail(edges))

RECURSIVE PivotLayer(_, _, _, _)
PivotLayer(G, c, B, Wi) ==
    IF Wi = <<>> THEN c
    ELSE PivotLayer(G, PivotEdges(c, B, Head(Wi), G[Head(Wi)]), B, Tail(Wi))

\* the vertices the search of the tree below u visits: adjF[u] holds the v of W
\* with pred[v] = u
RECURSIVE TreeReach(_, _, _, _)
TreeReach(L, W, from, seen) ==
    IF from \subseteq seen THEN seen
    ELSE TreeReach(L, W, {v \in W : L.pred[v] \in from \ seen}, seen \cup from)

\* the pivots: the u of Sset without a predecessor in W whose tree has k vertices
Pivots(L, W, Sset, k) ==
    SelectSeq(Sset, LAMBDA u : /\ ~(L.pred[u] # -1 /\ L.pred[u] \in W)
                               /\ Cardinality(TreeReach(L, W, {u}, {})) >= k)

RECURSIVE FindPivotsRounds(_, _, _, _, _, _)
\* the end of round i: Wi = move(Wi_next), and the early exit
FindPivotsRound(this, c, B, Sset, i) ==
    IF Sset # <<>> /\ Len(c.W) > this.k * Len(Sset)
    THEN [P |-> Sset, W |-> c.W, L |-> c.L]
    ELSE FindPivotsRounds(this, c, B, Sset, i + 1, c.Wi_next)

FindPivotsRounds(this, c, B, Sset, i, Wi) ==
    IF i > this.k
    THEN [P |-> Pivots(c.L, Range(c.W), Sset, this.k), W |-> c.W, L |-> c.L]
    ELSE FindPivotsRound(this, PivotLayer(this.G, [c EXCEPT !.Wi_next = <<>>], B, Wi),
                         B, Sset, i)

\* FindPivots(B, Sset): P, W and the labels
FindPivots(this, L, B, Sset) ==
    FindPivotsRounds(this, [L |-> L, W |-> Sset, Wi_next |-> <<>>], B, Sset, 1, Sset)

\* Cmp of the priority queues: a is popped before b
NodeBefore(a, b) == IF a.d # b.d THEN a.d < b.d ELSE a.u < b.u
NodeTop(pq) == CHOOSE i \in DOMAIN pq : \A j \in DOMAIN pq : ~NodeBefore(pq[j], pq[i])

\* the body of the relaxation loop of BaseCase for one edge; c is [L, pq, U0]
MiniDijkstraEdge(c, B, u, v, nd) ==
    IF nd >= B \/ ~Changed(c.L, u, v, nd) THEN c
    ELSE [c EXCEPT !.L = UpdateLabels(c.L, u, v, nd), !.pq = Append(@, [d |-> nd, u |-> v])]

RECURSIVE MiniDijkstraEdges(_, _, _, _)
MiniDijkstraEdges(c, B, u, edges) ==
    IF edges = <<>> THEN c
    ELSE MiniDijkstraEdges(
             MiniDijkstraEdge(c, B, u, Head(edges).to, DistAdd(c.L.dist[u], Head(edges).w)),
             B, u, Tail(edges))

RECURSIVE MiniDijkstra(_, _, _)
\* the body of the loop for the node popped
MiniDijkstraSettle(this, c, B, node) ==
    IF node.d > c.L.dist[node.u] \/ InSeq(node.u, c.U0) THEN MiniDijkstra(this, c, B)
    ELSE MiniDijkstra(this,
                      MiniDijkstraEdges([c EXCEPT !.U0 = Append(@, node.u)], B, node.u,
                                        this.G[node.u]),
                      B)

MiniDijkstraPop(this, c, B, top) ==
    MiniDijkstraSettle(this, [c EXCEPT !.pq = SeqRemoveAt(c.pq, top)], B, c.pq[top])

MiniDijkstra(this, c, B) ==
    IF c.pq # <<>> /\ Len(c.U0) < this.k + 1
    THEN MiniDijkstraPop(this, c, B, NodeTop(c.pq))
    ELSE c

\* the result of BaseCase; Bp is the largest distance of U0 when more than k
\* vertices were settled
BaseCaseReturn(this, c, B, Bp) ==
    IF Len(c.U0) <= this.k
    THEN [b |-> B, U |-> c.U0, L |-> c.L, ub |-> "none"]
    ELSE [b |-> Bp, U |-> SelectSeq(c.U0, LAMBDA u : c.L.dist[u] < Bp), L |-> c.L,
          ub |-> "none"]

BaseCaseSettled(this, c, B) ==
    BaseCaseReturn(this, c, B, SetMax({c.L.dist[u] : u \in Range(c.U0)} \cup {-INF_LD}))

\* BaseCase(B, x)
BaseCase(this, L, B, x) ==
    BaseCaseSettled(this,
                    MiniDijkstra(this,
                                 [L |-> L, U0 |-> <<>>,
                                  pq |-> IF L.dist[x] < B
                                         THEN <<[d |-> L.dist[x], u |-> x]>> ELSE <<>>],
                                 B),
                    B)

\* appends the vertices of xs that U does not hold
RECURSIVE AppendNew(_, _)
AppendNew(U, xs) ==
    IF xs = <<>> THEN U
    ELSE AppendNew(IF InSeq(Head(xs), U) THEN U ELSE Append(U, Head(xs)), Tail(xs))

\* the body of the relaxation loop of BMSSP for one edge; c is [L, D, Kbatch]
BatchEdge(c, u, v, nd, Bi_prime, Bi, B) ==
    IF c.L.dist[u] = INF_LD \/ ~Changed(c.L, u, v, nd) THEN c
    ELSE IF nd >= B THEN [c EXCEPT !.L = UpdateLabels(c.L, u, v, nd)]
    ELSE IF nd >= Bi
    THEN [c EXCEPT !.L = UpdateLabels(c.L, u, v, nd), !.D = MonoInsert(c.D, v, nd)]
    ELSE IF nd >= Bi_prime
    THEN [c EXCEPT !.L = UpdateLabels(c.L, u, v, nd), !.Kbatch = Append(@, Entry(v, nd))]
    ELSE [c EXCEPT !.L = UpdateLabels(c.L, u, v, nd)]

RECURSIVE BatchEdges(_, _, _, _, _, _)
BatchEdges(c, u, edges, Bi_prime, Bi, B) ==
    IF edges = <<>> THEN c
    ELSE BatchEdges(BatchEdge(c, u, Head(edges).to, DistAdd(c.L.dist[u], Head(edges).w),
                              Bi_prime, Bi, B),
                    u, Tail(edges), Bi_prime, Bi, B)

\* the loop of BMSSP over the edges of Ui
RECURSIVE BatchRelax(_, _, _, _, _, _)
BatchRelax(G, c, Ui, Bi_prime, Bi, B) ==
    IF Ui = <<>> THEN c
    ELSE BatchRelax(G, BatchEdges(c, Head(Ui), G[Head(Ui)], Bi_prime, Bi, B),
                    Tail(Ui), Bi_prime, Bi, B)

\* the loop of BMSSP that adds the vertices of Si to Kbatch
RECURSIVE BatchSources(_, _, _, _, _, _)
BatchSources(Si, L, U, Bi_prime, Bi, Kbatch) ==
    IF Si = <<>> THEN Kbatch
    ELSE BatchSources(Tail(Si), L, U, Bi_prime, Bi,
                      IF /\ ~InSeq(Head(Si), U)
                         /\ L.dist[Head(Si)] >= Bi_prime /\ L.dist[Head(Si)] < Bi
                      THEN Append(Kbatch, Entry(Head(Si), L.dist[Head(Si)])) ELSE Kbatch)

\* Step 3 of BMSSP
RECURSIVE InsertBelow(_, _, _, _)
InsertBelow(D, P, L, B) ==
    IF P = <<>> THEN D
    ELSE InsertBelow(IF L.dist[Head(P)] < B THEN MonoInsert(D, Head(P), L.dist[Head(P)]) ELSE D,
                     Tail(P), L, B)

\* what the caller of BMSSP(l, B, S) can observe when the call returns r: the bound
\* given, the bound returned, the returned U and db[v] of every v of U
MonoCall(l, B, r) ==
    [l |-> l, B |-> B, b |-> r.b, U |-> r.U,
     dist |-> [i \in DOMAIN r.U |-> r.L.dist[r.U[i]]]]

\* a call that does not return; calls are the calls below it that did
BMSSPAborted(L, B, ub, calls) == [b |-> B, U |-> <<>>, L |-> L, ub |-> ub, calls |-> calls]

\* r with the calls that returned during it: those below it, then itself
MonoReturned(l, B, r, calls) ==
    [b |-> r.b, U |-> r.U, L |-> r.L, ub |-> r.ub,
     calls |-> IF r.ub = "none" THEN Append(calls, MonoCall(l, B, r)) ELSE calls]

\* the two returns of BMSSP: U with the vertices of W below the bound
BMSSPReturn(c, l, B, W) ==
    MonoReturned(l, B,
                 [b |-> c.Bi_prime_last,
                  U |-> AppendNew(c.U, SelectSeq(W, LAMBDA x : c.L.dist[x] < c.Bi_prime_last)),
                  L |-> c.L, ub |-> "none"],
                 c.calls)

RECURSIVE BMSSP(_, _, _, _, _)
RECURSIVE BMSSPWhile(_, _, _, _, _, _)

\* the end of an iteration: BatchPrepend, and the return once U reached U_limit
BMSSPBatched(this, c, l, B, W, n) ==
    IF c.D.ub # "none" THEN BMSSPAborted(c.L, B, c.D.ub, c.calls)
    ELSE IF Len(c.U) >= Min2(this.N + 1, this.k * Pow2(l * this.t)) THEN BMSSPReturn(c, l, B, W)
    ELSE BMSSPWhile(this, c, l, B, W, n - 1)

\* an iteration after the relaxation loop returned rc and U took the vertices of Ui
BMSSPRelaxed(this, c, pulled, sub, rc, U, l, B, W, n) ==
    BMSSPBatched(this,
                 [L |-> rc.L,
                  D |-> MonoBatchPrepend(rc.D,
                                         BatchSources(pulled.keys, rc.L, U, sub.b,
                                                      pulled.separator, rc.Kbatch),
                                         this.order),
                  Bi_prime_last |-> Min2(c.Bi_prime_last, sub.b), U |-> U,
                  calls |-> c.calls \o sub.calls],
                 l, B, W, n)

\* an iteration after the recursive call returned sub
BMSSPSub(this, c, pulled, sub, l, B, W, n) ==
    IF sub.ub # "none" THEN BMSSPAborted(sub.L, B, sub.ub, c.calls \o sub.calls)
    ELSE BMSSPRelaxed(this, c, pulled, sub,
                      BatchRelax(this.G, [L |-> sub.L, D |-> pulled.ds, Kbatch |-> <<>>],
                                 sub.U, sub.b, pulled.separator, B),
                      AppendNew(c.U, sub.U), l, B, W, n)

\* an iteration after Pull returned pulled
BMSSPPull(this, c, pulled, l, B, W, n) ==
    IF pulled.ds.ub # "none" THEN BMSSPAborted(c.L, B, pulled.ds.ub, c.calls)
    ELSE IF pulled.keys = <<>> THEN BMSSPReturn(c, l, B, W)
    ELSE BMSSPSub(this, c, pulled, BMSSP(this, c.L, l - 1, pulled.separator, pulled.keys),
                  l, B, W, n)

\* Step 4 of BMSSP; c is [L, D, Bi_prime_last, U] and the calls that returned
BMSSPWhile(this, c, l, B, W, n) ==
    IF c.D.ub # "none" THEN BMSSPAborted(c.L, B, c.D.ub, c.calls)
    ELSE IF MonoEmpty(c.D) THEN BMSSPReturn(c, l, B, W)
    ELSE IF n = 0 THEN BMSSPAborted(c.L, B, "unfinished", c.calls)
    ELSE BMSSPPull(this, c, MonoPull(c.D), l, B, W, n)

\* Steps 2 to 4 of BMSSP, after FindPivots returned pivots
BMSSPFrom(this, pivots, l, B) ==
    BMSSPWhile(this,
               [L |-> pivots.L,
                D |-> InsertBelow(MonoInitialize(MonoNew(this.address_order),
                                                 Max2(1, Min2(this.N, Pow2((l - 1) * this.t))),
                                                 B),
                                  pivots.P, pivots.L, B),
                Bi_prime_last |-> B, U |-> <<>>, calls |-> <<>>],
               l, B, pivots.W, DuanMaxIterations)

\* BMSSP(l, B, S)
BMSSP(this, L, l, B, S) ==
    IF l = 0
    THEN MonoReturned(l, B, BaseCase(this, L, B, IF S = <<>> THEN this.s ELSE S[1]), <<>>)
    ELSE BMSSPFrom(this, FindPivots(this, L, B, S), l, B)

\* the body of the relaxation loop of finalize_with_dijkstra for one edge; c is [L, pq]
FinalizeEdge(c, u, v, nd) ==
    IF Changed(c.L, u, v, nd)
    THEN [c EXCEPT !.L = UpdateLabels(c.L, u, v, nd), !.pq = Append(@, [d |-> nd, u |-> v])]
    ELSE c

RECURSIVE FinalizeEdges(_, _, _, _)
FinalizeEdges(c, du, u, edges) ==
    IF edges = <<>> THEN c
    ELSE FinalizeEdges(FinalizeEdge(c, u, Head(edges).to, DistAdd(du, Head(edges).w)),
                       du, u, Tail(edges))

RECURSIVE FinalizeLoop(_, _)
FinalizePop(G, c, node) ==
    IF node.d > c.L.dist[node.u] THEN FinalizeLoop(G, c)
    ELSE FinalizeLoop(G, FinalizeEdges(c, node.d, node.u, G[node.u]))

FinalizeTop(G, c, i) == FinalizePop(G, [c EXCEPT !.pq = SeqRemoveAt(c.pq, i)], c.pq[i])

FinalizeLoop(G, c) == IF c.pq = <<>> THEN c.L ELSE FinalizeTop(G, c, NodeTop(c.pq))

\* the nodes pushed for the vertices us
InitialPq(L, us) == [i \in DOMAIN us |-> [d |-> L.dist[us[i]], u |-> us[i]]]

\* finalize_with_dijkstra that relaxes nothing
finalize_skipped(G, L) == L

\* finalize_with_dijkstra(): the labels after the pass
finalize_with_dijkstra(G, L) ==
    FinalizeLoop(G, [L |-> L,
                     pq |-> InitialPq(L, Ascending({u \in DOMAIN G : L.dist[u] < INF_LD}))])

\* run(finalize_pass) once BMSSP returned top
\* (bmssp keeps the distances BMSSP left)
RunFinalize(this, top, finalize_pass) ==
    IF top.ub # "none"
    THEN [db |-> top.L.dist, bmssp |-> top.L.dist, ub |-> top.ub, calls |-> top.calls]
    ELSE IF finalize_pass
    THEN [db |-> finalize_with_dijkstra(this.G, top.L).dist, bmssp |-> top.L.dist,
          ub |-> "none", calls |-> top.calls]
    ELSE [db |-> top.L.dist, bmssp |-> top.L.dist, ub |-> "none", calls |-> top.calls]

\* run(finalize_pass): l_top = ceil(log2(max(2, N)) / max(1, t))
run(this, L, finalize_pass) ==
    RunFinalize(this,
                BMSSP(this, L, (CeilLog2(Max2(2, this.N)) + this.t - 1) \div this.t, INF_LD,
                      <<this.s>>),
                finalize_pass)

\* duan_sssp_transformed(g, source_slot, finalize_pass): algo.L.db
duan_sssp_transformed(g, source_slot, finalize_pass, order, address_order) ==
    run(DMSYThis(g, source_slot, order, address_order), DMSYLabels(g, source_slot),
        finalize_pass)

\* the projection of duan_shortest_paths_original_graph: dist_orig
Projected(n, edges, source, transformed) ==
    [dist |-> [v \in 0..(n - 1) |->
                  IF v = source
                  THEN Min2(0, SetMin({transformed.db[slot_id(edges, v, w)] :
                                          w \in SlotKeys(edges, v)}))
                  ELSE SetMin({transformed.db[slot_id(edges, v, w)] :
                                  w \in SlotKeys(edges, v)})],
     error |-> "", ub |-> transformed.ub, transformed |-> transformed]

Unexpected(message) ==
    [dist |-> <<>>, error |-> message, ub |-> "none",
     transformed |-> [db |-> <<>>, bmssp |-> <<>>, ub |-> "none", calls |-> <<>>]]

\* duan_shortest_paths_original_graph(n, edges, source, finalize_pass)
duan_shortest_paths_original_graph(n, edges, source, finalize_pass, order, address_order) ==
    IF n < 0 THEN Unexpected("n must be non-negative")
    ELSE IF source < 0 \/ source >= n THEN Unexpected("invalid source index")
    ELSE IF \E i \in DOMAIN edges :
                edges[i][1] < 0 \/ edges[i][1] >= n \/ edges[i][2] < 0 \/ edges[i][2] >= n
    THEN Unexpected("edge endpoint out of range")
    ELSE IF \E i \in DOMAIN edges : edges[i][3] < 0
    THEN Unexpected("negative edge weights are not allowed")
    ELSE Projected(n, edges, source,
                   duan_sssp_transformed(Gt(n, edges), rep_of_orig(edges, source),
                                         finalize_pass, order, address_order))

(***************************************************************************)
(* The top-level call on every graph of at most DMSYMaxN vertices and      *)
(* DMSYMaxEdges edges with weights 0..DMSYMaxWeight, from every source     *)
(* and from the index past the last vertex, with and without the           *)
(* finalisation pass.                                                      *)
(***************************************************************************)
DMSYMaxN == 3
DMSYMaxEdges == 2
DMSYMaxWeight == 1

\* the edges of E as the sequence in the order of (u, v, w)
EdgeList(E) ==
    LET rank(e) == (e[1] * INF_LD + e[2]) * 10 + e[3]
        sorted == Ascending({rank(e) : e \in E})
    IN [i \in DOMAIN sorted |->
           <<sorted[i] \div (10 * INF_LD), (sorted[i] \div 10) % INF_LD, sorted[i] % 10>>]

\* the graph of the edges as adjacency lists
AdjacencyList(out) == [i \in DOMAIN out |-> [to |-> out[i][2], weight |-> out[i][3]]]
OriginalGraph(n, edges) ==
    [u \in 0..(n - 1) |-> AdjacencyList(SelectSeq(edges, LAMBDA e : e[1] = u))]

DMSYNoResult == Unexpected("")

DMSYNew(n, edges, source, finalize_pass, order, address_order) ==
    [op |-> "input", n |-> n, edges |-> edges, source |-> source,
     finalize_pass |-> finalize_pass, order |-> order, address_order |-> address_order,
     result |-> DMSYNoResult]

DMSYInputs ==
    UNION {{DMSYNew(n, EdgeList(E), source, finalize_pass, order, address_order) :
                E \in EdgeSets(EdgeTriples(n, 0..DMSYMaxWeight), DMSYMaxEdges),
                source \in 0..n, finalize_pass \in BOOLEAN,
                order \in UnorderedOrders, address_order \in AddressOrders} :
           n \in 1..DMSYMaxN}

DMSYShortestPaths ==
    /\ dmsy.op = "input"
    /\ dmsy' = [dmsy EXCEPT
                   !.op = "duan_shortest_paths_original_graph",
                   !.result = duan_shortest_paths_original_graph(
                                  dmsy.n, dmsy.edges, dmsy.source, dmsy.finalize_pass,
                                  dmsy.order, dmsy.address_order)]
    /\ UNCHANGED notDMSY

DMSYNext == DMSYShortestPaths

\* C10: for every valid input, duan_shortest_paths_original_graph with the
\* finalisation pass returns, for each original vertex v, the true shortest-path
\* distance from the source to v in the original directed graph: INF_LD for an
\* unreachable vertex, 0 for the source
C10_OriginalGraphTrueDistances ==
    (/\ dmsy.op = "duan_shortest_paths_original_graph"
     /\ dmsy.source < dmsy.n /\ dmsy.finalize_pass)
        => /\ dmsy.result.ub = "none" /\ dmsy.result.error = ""
           /\ dmsy.result.dist[dmsy.source] = 0
           /\ \A v \in 0..(dmsy.n - 1) :
                  dmsy.result.dist[v]
                      = ShortestDistances(OriginalGraph(dmsy.n, dmsy.edges), dmsy.source)[v]

C10_Witness ==
    /\ dmsy.op = "duan_shortest_paths_original_graph"
    /\ dmsy.source < dmsy.n /\ dmsy.finalize_pass /\ dmsy.result.ub = "none"
    /\ \E v \in 0..(dmsy.n - 1) :
           /\ v # dmsy.source
           /\ \A w \in SlotKeys(dmsy.edges, v) :
                  dmsy.result.dist[v]
                      < dmsy.result.transformed.bmssp[slot_id(dmsy.edges, v, w)]

\* the adjacency lists of a transformed graph with the field names of Graph
WeightGraph(G) ==
    [u \in DOMAIN G |-> [i \in DOMAIN G[u] |-> [to |-> G[u][i].to, weight |-> G[u][i].w]]]

\* the true distances of the slots of the transformed graph from the source slot
TrueSlotDistances(n, edges, source) ==
    ShortestDistances(WeightGraph(Gt(n, edges)), rep_of_orig(edges, source))

\* the call BMSSP(l_top, INF_LD, {s}) of run: the last call that returned
TopCall(calls) == calls[Len(calls)]

\* the postcondition of a call that returned top, given the true distances:
\* every vertex of U is complete, and U holds every vertex below the bound returned
\* (every path from the source visits S = {s})
BMSSPPostcondition(top, true) ==
    /\ \A i \in DOMAIN top.U : top.dist[i] = true[top.U[i]]
    /\ \A v \in DOMAIN true : true[v] < top.b => InSeq(v, top.U)

\* C29: BMSSP(l, B, S) called with its precondition met returns (B', U) with every
\* vertex of U complete and with every vertex of true distance below B' in U; the
\* call of run, BMSSP(l_top, INF_LD, {s}) on the labels of the constructor, meets
\* the precondition (s is complete and every shortest path starts at s)
C29_BMSSPPostcondition ==
    (/\ dmsy.op = "duan_shortest_paths_original_graph"
     /\ dmsy.source < dmsy.n /\ dmsy.result.ub = "none")
        => BMSSPPostcondition(TopCall(dmsy.result.transformed.calls),
                              TrueSlotDistances(dmsy.n, dmsy.edges, dmsy.source))

\* algo.L.db of the run on the input of dmsy with the given finalize_pass
TransformedDb(finalize_pass) ==
    duan_sssp_transformed(Gt(dmsy.n, dmsy.edges), rep_of_orig(dmsy.edges, dmsy.source),
                          finalize_pass, dmsy.order, dmsy.address_order).db

\* C30: when BMSSP(l_top, INF_LD, {s}) returns, every label equals its true
\* distance, so the finalisation pass changes no label: the runs with and without
\* the pass return the same distances
C30_FinalizationChangesNothing ==
    (/\ dmsy.op = "duan_shortest_paths_original_graph"
     /\ dmsy.source < dmsy.n /\ dmsy.result.ub = "none")
        => /\ dmsy.result.transformed.bmssp
                  = TrueSlotDistances(dmsy.n, dmsy.edges, dmsy.source)
           /\ dmsy.finalize_pass
                  => dmsy.result.transformed.db = dmsy.result.transformed.bmssp
           /\ TransformedDb(TRUE) = TransformedDb(FALSE)

(***************************************************************************)
(* The three LRU caches of the repository under the same calls:            *)
(* LRUCache of lru_cache (above), LRUCacheBaseline (lru_baseline.h) and    *)
(* LRUCache<T> of faster_lru (lru.h, lru.tpp).  The list of a baseline or  *)
(* faster_lru cache is the sequence of its [key, value] nodes from the     *)
(* front (most recently used); an iterator of map_ designates the node of  *)
(* its key.  A nullopt and a missing value are written 0.                  *)
(***************************************************************************)
CacheKeys == {1, 2, 5}

\* std::list::splice(begin(), list_, it): the node of key moves to the front
Splice(list, key) ==
    SelectSeq(list, LAMBDA n : n.key = key) \o SelectSeq(list, LAMBDA n : n.key # key)
NodeValue(list, key) == SelectSeq(list, LAMBDA n : n.key = key)[1].value
SetNodeValue(list, key, value) ==
    [i \in DOMAIN list |-> IF list[i].key = key THEN [list[i] EXCEPT !.value = value]
                           ELSE list[i]]

\* LRUCacheBaseline(item_limit)
LRUCacheBaseline(item_limit) == [list |-> <<>>, map |-> {}, capacity |-> item_limit]

LRUCacheBaseline_has(b, key) == key \in b.map

\* get / get_ref: [c, err, value]
LRUCacheBaseline_get(b, key) ==
    IF key \notin b.map THEN [c |-> b, err |-> "KeyNotFound", value |-> 0]
    ELSE [c |-> [b EXCEPT !.list = Splice(b.list, key)], err |-> "none",
          value |-> NodeValue(b.list, key)]

\* get_ref that leaves the list as it is
LRUCacheBaseline_get_ref_const(b, key) ==
    IF key \notin b.map THEN [c |-> b, err |-> "KeyNotFound", value |-> 0]
    ELSE [c |-> b, err |-> "none", value |-> NodeValue(b.list, key)]

LRUCacheBaseline_get_ref(b, key) ==
    IF key \notin b.map THEN [c |-> b, err |-> "KeyNotFound", value |-> 0]
    ELSE [c |-> [b EXCEPT !.list = Splice(b.list, key)], err |-> "none",
          value |-> NodeValue(b.list, key)]

\* get_optional: the error of get becomes nullopt
LRUCacheBaseline_get_optional(b, key) ==
    [LRUCacheBaseline_get(b, key) EXCEPT !.err = "none"]

\* the eviction of set that pops the front of the list
LRUCacheBaseline_evict_front(b) ==
    [b EXCEPT !.map = b.map \ {b.list[1].key}, !.list = Tail(b.list)]

\* the eviction of set: map_.erase(list_.back().first); list_.pop_back()
LRUCacheBaseline_evict(b) ==
    [b EXCEPT !.map = b.map \ {b.list[Len(b.list)].key},
              !.list = SubSeq(b.list, 1, Len(b.list) - 1)]

\* set(key, value): [c, err, value]
LRUCacheBaseline_inserted(b, key, value) ==
    [c |-> [b EXCEPT !.list = <<[key |-> key, value |-> value]>> \o b.list,
                     !.map = b.map \cup {key}],
     err |-> "none", value |-> 0]

\* set without the capacity test of its first line
LRUCacheBaseline_set_unchecked(b, key, value) ==
    IF key \in b.map
    THEN [c |-> [b EXCEPT !.list = Splice(SetNodeValue(b.list, key, value), key)],
          err |-> "none", value |-> 0]
    ELSE IF b.list # <<>> /\ Len(b.list) >= b.capacity
    THEN LRUCacheBaseline_inserted(LRUCacheBaseline_evict(b), key, value)
    ELSE LRUCacheBaseline_inserted(b, key, value)

LRUCacheBaseline_set(b, key, value) ==
    IF b.capacity = 0 THEN [c |-> b, err |-> "CapacityZero", value |-> 0]
    ELSE IF key \in b.map
    THEN [c |-> [b EXCEPT !.list = Splice(SetNodeValue(b.list, key, value), key)],
          err |-> "none", value |-> 0]
    ELSE IF Len(b.list) >= b.capacity
    THEN LRUCacheBaseline_inserted(LRUCacheBaseline_evict(b), key, value)
    ELSE LRUCacheBaseline_inserted(b, key, value)

LRUCacheBaseline_size(b) == Len(b.list)
LRUCacheBaseline_clear(b) == [b EXCEPT !.list = <<>>, !.map = {}]
\* begin() to end(): the pairs in list order
LRUCacheBaseline_iterate(b) == [i \in DOMAIN b.list |-> <<b.list[i].key, b.list[i].value>>]

\* the move constructor and the move assignment: what other is left as (the list
\* and the map of libstdc++ are empty after a move)
LRUCacheBaseline_moved_from(other) == [list |-> <<>>, map |-> {}, capacity |-> 0]
\* operator=(LRUCacheBaseline&& other), this # &other
LRUCacheBaseline_move_assign(this, other) ==
    [list |-> other.list, map |-> other.map, capacity |-> other.capacity]

(* LRUCache of lru_cache: the calls not modelled above *)

get_optional(c, key) == [get(c, key) EXCEPT !.err = "none"]
size(c) == c.size
\* begin() to end(): the pairs from lru_head along next
RECURSIVE IteratePairsFrom(_, _, _)
IteratePairsFrom(c, idx, fuel) ==
    IF idx = INVALID_INDEX \/ fuel = 0 THEN <<>>
    ELSE <<<<c.nodes[idx].key, c.nodes[idx].value>>>>
             \o IteratePairsFrom(c, c.nodes[idx].next, fuel - 1)
IteratePairs(c) == IteratePairsFrom(c, c.lru_head, c.capacity + 1)

\* a moved-from cache that keeps its size
LRUCache_moved_from_sized(other) ==
    [nodes |-> <<>>, buckets |-> <<>>, free_head |-> INVALID_INDEX,
     lru_head |-> INVALID_INDEX, lru_tail |-> INVALID_INDEX,
     capacity |-> 0, size |-> other.size, bucket_count |-> 0]

\* the move constructor and the move assignment: what other is left as
LRUCache_moved_from(other) ==
    [nodes |-> <<>>, buckets |-> <<>>, free_head |-> INVALID_INDEX,
     lru_head |-> INVALID_INDEX, lru_tail |-> INVALID_INDEX,
     capacity |-> 0, size |-> 0, bucket_count |-> 0]
\* operator=(LRUCache&& other), this # &other: clear_all, then the members of other
LRUCache_move_assign(this, other) == [clear_all(this) EXCEPT !.nodes = other.nodes,
    !.buckets = other.buckets, !.free_head = other.free_head,
    !.lru_head = other.lru_head, !.lru_tail = other.lru_tail,
    !.capacity = other.capacity, !.size = other.size,
    !.bucket_count = other.bucket_count]

(* LRUCache<T> of faster_lru: list is head->next .. tail->prev *)

FasterLRU(item_limit) ==
    [list |-> <<>>, map |-> {}, capacity |-> Max2(0, item_limit), size |-> 0]

FasterLRU_has(f, key) == key \in f.map

\* moveToHead: removeNode, addAfterHead
moveToHead(list, key) == Splice(list, key)

FasterLRU_get(f, key) ==
    IF key \notin f.map THEN [c |-> f, err |-> "KeyNotFound", value |-> 0]
    ELSE [c |-> [f EXCEPT !.list = moveToHead(f.list, key)], err |-> "none",
          value |-> NodeValue(f.list, key)]

\* get_ref is const: the list is left as it is
FasterLRU_get_ref(f, key) ==
    IF key \notin f.map THEN [c |-> f, err |-> "KeyNotFound", value |-> 0]
    ELSE [c |-> f, err |-> "none", value |-> NodeValue(f.list, key)]

FasterLRU_clearAll(f) == [f EXCEPT !.list = <<>>, !.map = {}, !.size = 0]

\* popLRU, map.erase, --size
FasterLRU_popLRU(f) ==
    [f EXCEPT !.map = f.map \ {f.list[Len(f.list)].key},
              !.list = SubSeq(f.list, 1, Len(f.list) - 1), !.size = f.size - 1]

\* set(key, value) returns nothing
FasterLRU_added(f, key, value) ==
    [f EXCEPT !.list = <<[key |-> key, value |-> value]>> \o f.list,
              !.map = f.map \cup {key}, !.size = f.size + 1]

FasterLRU_set(f, key, value) ==
    IF f.capacity = 0 THEN IF f.map # {} THEN FasterLRU_clearAll(f) ELSE f
    ELSE IF key \in f.map
    THEN [f EXCEPT !.list = moveToHead(SetNodeValue(f.list, key, value), key)]
    ELSE IF f.size + 1 > f.capacity THEN FasterLRU_popLRU(FasterLRU_added(f, key, value))
    ELSE FasterLRU_added(f, key, value)

(***************************************************************************)
(* caches holds one cache of each kind, which receive the same calls, and  *)
(* for the two caches of lru_cache a second object (other) that the moves  *)
(* involve; faster_lru has neither clear nor moves: a clear replaces it by *)
(* a new cache of its capacity, and under the moves it is a cache of       *)
(* capacity 0, which every call leaves empty.  ret is the last             *)
(* call's return, followed by size() and the iteration from begin() to     *)
(* end().  hist is the history of the object the calls go to: the keys a   *)
(* set inserted since it was made or cleared, the first of them, and       *)
(* whether a set, get, get_ref or get_optional named that key since.       *)
(***************************************************************************)
NoHistory == [distinct |-> {}, first |-> 0, first_accessed |-> FALSE]

Observed(r, has_result, sz, iter) ==
    [err |-> r.err, value |-> r.value, has |-> has_result, size |-> sz, iter |-> iter]
ObservedOpt(r, has_result) == Observed(r, has_result, size(r.c), IteratePairs(r.c))
ObservedBase(r, has_result) ==
    Observed(r, has_result, LRUCacheBaseline_size(r.c), LRUCacheBaseline_iterate(r.c))
\* faster_lru offers neither size() nor iterators
ObservedFast(r, has_result) == [err |-> r.err, value |-> r.value, has |-> has_result]
Returned(c) == [c |-> c, err |-> "none", value |-> 0]

CachesNew(n, m, f) ==
    [opt |-> LRUCacheNew(n), base |-> LRUCacheBaseline(n), fast |-> FasterLRU(f),
     other_opt |-> LRUCacheNew(m), other_base |-> LRUCacheBaseline(m),
     hist |-> NoHistory, other_hist |-> NoHistory, op |-> "new", key |-> 0,
     ret |-> [opt |-> ObservedOpt(Returned(LRUCacheNew(n)), FALSE),
              base |-> ObservedBase(Returned(LRUCacheBaseline(n)), FALSE),
              fast |-> ObservedFast(Returned(FasterLRU(f)), FALSE)]]

\* the history after a call that named key: ok says it returned without error,
\* inserted that it was a set
Accessed(h, key, ok, inserted) ==
    IF ~ok THEN h
    ELSE IF h.first = 0
    THEN IF inserted THEN [distinct |-> {key}, first |-> key, first_accessed |-> FALSE]
         ELSE h
    ELSE [h EXCEPT !.distinct = IF inserted THEN h.distinct \cup {key} ELSE h.distinct,
                   !.first_accessed = h.first_accessed \/ key = h.first]

\* a call on the three caches: ro, rb, rf are [c, err, value] of each
CachesStep(op, key, ro, rb, rf, has_o, has_b, has_f, hist) ==
    /\ caches' = [caches EXCEPT !.opt = ro.c, !.base = rb.c, !.fast = rf.c,
                                !.op = op, !.key = key, !.hist = hist,
                                !.ret = [opt |-> ObservedOpt(ro, has_o),
                                         base |-> ObservedBase(rb, has_b),
                                         fast |-> ObservedFast(rf, has_f)]]
    /\ UNCHANGED notCaches

CachesSet(key, value) ==
    CachesStep("set", key, set(caches.opt, key, value),
               LRUCacheBaseline_set(caches.base, key, value),
               Returned(FasterLRU_set(caches.fast, key, value)), FALSE, FALSE, FALSE,
               Accessed(caches.hist, key, caches.opt.capacity > 0, TRUE))

CachesGet(key) ==
    CachesStep("get", key, get(caches.opt, key), LRUCacheBaseline_get(caches.base, key),
               FasterLRU_get(caches.fast, key), FALSE, FALSE, FALSE,
               Accessed(caches.hist, key, has(caches.opt, key), FALSE))

CachesGetRef(key) ==
    CachesStep("get_ref", key, get_ref(caches.opt, key),
               LRUCacheBaseline_get_ref(caches.base, key),
               FasterLRU_get_ref(caches.fast, key), FALSE, FALSE, FALSE,
               Accessed(caches.hist, key, has(caches.opt, key), FALSE))

\* get_optional of faster_lru (lru.tpp 69-77) is a member template body that
\* no instantiation accepts (or_else is given a callable returning an
\* optional), so the call exists for the two caches of lru_cache only
CachesGetOptional(key) ==
    CachesStep("get_optional", key, get_optional(caches.opt, key),
               LRUCacheBaseline_get_optional(caches.base, key),
               Returned(caches.fast), FALSE, FALSE, FALSE,
               Accessed(caches.hist, key, has(caches.opt, key), FALSE))

CachesHas(key) ==
    CachesStep("has", key, Returned(caches.opt), Returned(caches.base),
               Returned(caches.fast), has(caches.opt, key),
               LRUCacheBaseline_has(caches.base, key), FasterLRU_has(caches.fast, key),
               caches.hist)

CachesClear ==
    CachesStep("clear", 0, Returned(clear(caches.opt)),
               Returned(LRUCacheBaseline_clear(caches.base)),
               Returned(FasterLRU(caches.fast.capacity)), FALSE, FALSE, FALSE, NoHistory)

\* the moves of the two caches of lru_cache
CachesMoved(op, opt, base, other_opt, other_base, hist, other_hist) ==
    /\ caches' = [caches EXCEPT !.opt = opt, !.base = base, !.other_opt = other_opt,
                                !.other_base = other_base, !.hist = hist,
                                !.other_hist = other_hist, !.op = op, !.key = 0,
                                !.ret = [opt |-> ObservedOpt(Returned(opt), FALSE),
                                         base |-> ObservedBase(Returned(base), FALSE),
                                         fast |-> ObservedFast(Returned(caches.fast), FALSE)]]
    /\ UNCHANGED notCaches

\* this = std::move(other)
CachesMoveAssign ==
    CachesMoved("move_assign", LRUCache_move_assign(caches.opt, caches.other_opt),
                LRUCacheBaseline_move_assign(caches.base, caches.other_base), LRUCache_moved_from(caches.other_opt),
                LRUCacheBaseline_moved_from(caches.other_base), caches.other_hist, NoHistory)

\* other is replaced by an object move-constructed from this
CachesMoveConstruct ==
    CachesMoved("move_construct", LRUCache_moved_from(caches.opt),
                LRUCacheBaseline_moved_from(caches.base), caches.opt, caches.base,
                NoHistory, caches.hist)

\* this = std::move(this)
CachesMoveSelf ==
    CachesMoved("move_self", caches.opt, caches.base, caches.other_opt, caches.other_base,
                caches.hist, caches.other_hist)

CachesNext ==
    \/ \E k \in CacheKeys, v \in LRUVals : CachesSet(k, v)
    \/ \E k \in CacheKeys : CachesGet(k)
    \/ \E k \in CacheKeys : CachesGetRef(k)
    \/ \E k \in CacheKeys : CachesGetOptional(k)
    \/ \E k \in CacheKeys : CachesHas(k)
    \/ CachesClear

CachesMovesNext ==
    \/ CachesNext
    \/ CachesMoveAssign
    \/ CachesMoveConstruct
    \/ CachesMoveSelf

\* C11: at every step the optimized and the baseline cache returned the same:
\* the same error, value and has() answer, the same size() and the same pairs
\* in the same order from begin() to end()
C11_OptimizedEqualsBaseline == caches.ret.opt = caches.ret.base

\* C11 witness: both caches have evicted an entry and hold two; the entry they
\* kept is not the latest insertion but one that a get or get_ref refreshed
C11_Witness ==
    /\ caches.op \in {"get", "get_ref"} /\ caches.ret.opt.err = "none"
    /\ Cardinality(caches.hist.distinct) = 3
    /\ caches.ret.opt.size = 2 /\ caches.ret.base.size = 2
    /\ caches.ret.opt.iter[1][1] = caches.key /\ caches.ret.opt.iter[1][1] = caches.hist.first

\* the most recently used key of each cache (0: none)
MruOpt(c) == IF c.lru_head = INVALID_INDEX THEN 0 ELSE c.nodes[c.lru_head].key
MruList(c) == IF c.list = <<>> THEN 0 ELSE c.list[1].key

\* C12: in every implementation, after get_ref(k) found k, k is the most recently
\* used entry of that cache
C12_GetRefUpdatesRecency ==
    caches.op = "get_ref"
    => /\ caches.ret.opt.err = "none" => MruOpt(caches.opt) = caches.key
       /\ caches.ret.base.err = "none" => MruList(caches.base) = caches.key
       /\ caches.ret.fast.err = "none" => MruList(caches.fast) = caches.key

\* C13: size() <= capacity() for the optimized and the baseline cache, for the
\* object the calls go to and for the object the moves took from or gave to
C13_SizeWithinCapacity ==
    /\ size(caches.opt) <= caches.opt.capacity
    /\ size(caches.other_opt) <= caches.other_opt.capacity
    /\ LRUCacheBaseline_size(caches.base) <= caches.base.capacity
    /\ LRUCacheBaseline_size(caches.other_base) <= caches.other_base.capacity

\* C13 witness: a full cache was moved from, and a set on the object that took
\* its place evicted an entry
C13_Witness ==
    /\ caches.op = "set" /\ caches.other_opt.capacity = 0 /\ caches.other_opt.nodes = <<>>
    /\ size(caches.opt) = 2 /\ caches.opt.capacity = 2
    /\ Cardinality(caches.hist.distinct) = 3
    /\ LRUCacheBaseline_size(caches.base) = 2

\* C14 as stated: once capacity distinct keys were inserted, the first of them,
\* not accessed since, is no longer present
C14_FirstGoneAfterCapacityInserts ==
    (/\ caches.opt.capacity > 0
     /\ Cardinality(caches.hist.distinct) = caches.opt.capacity
     /\ ~caches.hist.first_accessed)
    => /\ ~has(caches.opt, caches.hist.first)
       /\ ~LRUCacheBaseline_has(caches.base, caches.hist.first)

\* C14 amended: once capacity + 1 distinct keys were inserted, the first of them,
\* not accessed since, is no longer present; after only capacity distinct keys it
\* is still present
C14_FirstGoneAfterCapacityPlusOne ==
    /\ (/\ caches.opt.capacity > 0
        /\ Cardinality(caches.hist.distinct) >= caches.opt.capacity + 1
        /\ ~caches.hist.first_accessed)
       => /\ ~has(caches.opt, caches.hist.first)
          /\ ~LRUCacheBaseline_has(caches.base, caches.hist.first)
    /\ (/\ caches.opt.capacity > 0
        /\ Cardinality(caches.hist.distinct) = caches.opt.capacity
        /\ ~caches.hist.first_accessed)
       => /\ has(caches.opt, caches.hist.first)
          /\ LRUCacheBaseline_has(caches.base, caches.hist.first)

\* C14 witness: the third distinct key was just inserted into a cache of capacity
\* two and the first one is gone
C14_Witness ==
    /\ caches.op = "set" /\ caches.opt.capacity = 2
    /\ Cardinality(caches.hist.distinct) = 3 /\ ~caches.hist.first_accessed
    /\ caches.key # caches.hist.first
    /\ ~has(caches.opt, caches.hist.first)
    /\ ~LRUCacheBaseline_has(caches.base, caches.hist.first)
(***************************************************************************)
(* BaseCase::Execute called directly, in its two implementations:          *)
(* duan_sssp/src/algorithms/base_case.cpp, which returns                   *)
(* std::expected<BaseCaseResult, DuanError>, and                           *)
(* faster_dijkstra/duan/src/base_case.cpp, which asserts.  The labels are  *)
(* kept from one call to the next.                                         *)
(***************************************************************************)

\* the body of the relaxation loop of duan_sssp's BaseCase for one edge; c is
\* [labels, heap, U_0]
SsspRelaxEdge(c, B, u, v, new_dist) ==
    IF new_dist >= B THEN c
    ELSE IF try_relax(c.labels, u, v, new_dist).updated
    THEN [labels |-> try_relax(c.labels, u, v, new_dist).labels,
          heap |-> Append(c.heap, [vertex |-> v, dist |-> new_dist,
                                   hops |-> c.labels.hops[u] + 1]),
          U_0 |-> c.U_0]
    ELSE c

RECURSIVE SsspRelax(_, _, _, _)
SsspRelax(c, B, u, edges) ==
    IF edges = <<>> THEN c
    ELSE SsspRelax(SsspRelaxEdge(c, B, u, Head(edges).to,
                                 DistAdd(c.labels.dist[u], Head(edges).weight)),
                   B, u, Tail(edges))

RECURSIVE SsspLoop(_, _, _, _, _)
\* the body of the loop for the element popped
SsspSettle(graph, c, B, x, k, min_elem) ==
    IF (InSeq(min_elem.vertex, c.U_0) /\ min_elem.vertex # x)
           \/ min_elem.dist > c.labels.dist[min_elem.vertex]
    THEN SsspLoop(graph, c, B, x, k)
    ELSE SsspLoop(graph,
                  SsspRelax([labels |-> c.labels, heap |-> c.heap,
                             U_0 |-> IF min_elem.vertex # x
                                     THEN Append(c.U_0, min_elem.vertex) ELSE c.U_0],
                            B, min_elem.vertex, graph[min_elem.vertex]),
                  B, x, k)

SsspPop(graph, c, B, x, k, top) ==
    SsspSettle(graph, [labels |-> c.labels, heap |-> SeqRemoveAt(c.heap, top), U_0 |-> c.U_0],
               B, x, k, c.heap[top])

\* the loop that runs until k + 2 vertices are settled
SsspLoop_one_more(graph, c, B, x, k) ==
    IF c.heap # <<>> /\ Len(c.U_0) < k + 2
    THEN SsspPop(graph, c, B, x, k, HeapTop(c.heap))
    ELSE c

SsspLoop(graph, c, B, x, k) ==
    IF c.heap # <<>> /\ Len(c.U_0) < k + 1
    THEN SsspPop(graph, c, B, x, k, HeapTop(c.heap))
    ELSE c

\* std::unexpected(error): no label was written
SsspUnexpected(labels, error) ==
    [error |-> error, b |-> 0, U |-> <<>>, U_0 |-> <<>>, heap |-> <<>>, labels |-> labels,
     ub |-> "none"]

\* BaseCase that returns the boundary max_dist and every settled vertex in both cases
SsspResult_all(c, B, k, max_dist) ==
    [error |-> "", b |-> max_dist, U |-> c.U_0, U_0 |-> c.U_0, heap |-> c.heap,
     labels |-> c.labels, ub |-> "none"]

\* the result for the boundary max_dist of the case |U_0| > k; U_0 and the heap
\* left are kept next to what the caller receives
SsspResult(c, B, k, max_dist) ==
    IF Len(c.U_0) <= k
    THEN [error |-> "", b |-> B, U |-> c.U_0, U_0 |-> c.U_0, heap |-> c.heap,
          labels |-> c.labels, ub |-> "none"]
    ELSE [error |-> "", b |-> max_dist,
          U |-> SelectSeq(c.U_0, LAMBDA v : c.labels.dist[v] < max_dist),
          U_0 |-> c.U_0, heap |-> c.heap, labels |-> c.labels, ub |-> "none"]

SsspFinish(c, B, k) ==
    SsspResult(c, B, k, SetMax({c.labels.dist[v] : v \in Range(c.U_0)} \cup {-INF}))

\* duan_sssp: BaseCase::Execute(graph, labels, B, S, k)
SsspBaseCase_Execute(graph, labels, B, S, k) ==
    IF Len(S) # 1 THEN SsspUnexpected(labels, "NonSingletonSourceSet")
    ELSE IF S[1] < 0 \/ S[1] >= GraphSize(graph)
    THEN SsspUnexpected(labels, "SourceOutOfBounds")
    ELSE SsspFinish(
             SsspLoop(graph,
                      [labels |-> labels, U_0 |-> <<S[1]>>,
                       heap |-> <<[vertex |-> S[1], dist |-> labels.dist[S[1]],
                                   hops |-> labels.hops[S[1]]]>>],
                      B, S[1], k),
             B, k)

\* faster_dijkstra/duan: the same call; what the caller receives has no error
AssertingBaseCase_Execute(graph, labels, B, S, k) ==
    [error |-> "", b |-> BaseCase_Execute(graph, labels, B, S, k).b,
     U |-> BaseCase_Execute(graph, labels, B, S, k).U,
     labels |-> BaseCase_Execute(graph, labels, B, S, k).labels,
     ub |-> BaseCase_Execute(graph, labels, B, S, k).ub]

BaseCaseMaxN == 3
BaseCaseMaxEdges == 2
BaseCaseMaxWeight == 1
BaseCaseMaxK == 2
BaseCaseMaxBound == 2
BaseCaseBounds == {BaseCaseMaxBound, INF}

\* the source sets of a call: none, one vertex or one index outside the graph,
\* two vertices
BaseCaseSourceSets(n) ==
    {<<>>} \cup {<<x>> : x \in (-1)..n} \cup {<<0, x>> : x \in 0..(n - 1)}

BaseCaseNoResult ==
    [error |-> "", b |-> 0, U |-> <<>>, labels |-> Labels(0), ub |-> "none"]

\* a graph and the labels after reset with dist[0] = 0, before any call
BaseCaseNew(impl, graph) ==
    [op |-> "new", impl |-> impl, graph |-> graph,
     labels |-> SourceLabels(GraphSize(graph), 0), before |-> Labels(0),
     B |-> 0, S |-> <<>>, k |-> 0, ret |-> BaseCaseNoResult]

BaseCaseInputs ==
    UNION {{BaseCaseNew(impl, GraphOf(n, E)) :
                impl \in {"duan_sssp", "faster_dijkstra/duan"},
                E \in EdgeSets(EdgeTriples(n, 0..BaseCaseMaxWeight), BaseCaseMaxEdges)} :
           n \in 1..BaseCaseMaxN}

BaseCaseCalled(B, S, k, ret) ==
    /\ basecase' = [basecase EXCEPT !.op = "Execute", !.labels = ret.labels,
                                    !.before = basecase.labels,
                                    !.B = B, !.S = S, !.k = k, !.ret = ret]
    /\ UNCHANGED notBaseCase

\* BaseCase::Execute of duan_sssp
BaseCaseExecute(B, S, k) ==
    /\ basecase.impl = "duan_sssp"
    /\ BaseCaseCalled(B, S, k, SsspBaseCase_Execute(basecase.graph, basecase.labels, B, S, k))

\* BaseCase::Execute of faster_dijkstra/duan; nothing follows a call that did not
\* return
BaseCaseExecuteAsserting(B, S, k) ==
    /\ basecase.impl = "faster_dijkstra/duan"
    /\ basecase.ret.ub = "none"
    /\ BaseCaseCalled(B, S, k,
                      AssertingBaseCase_Execute(basecase.graph, basecase.labels, B, S, k))

BaseCaseNext ==
    \/ \E B \in BaseCaseBounds, S \in BaseCaseSourceSets(GraphSize(basecase.graph)),
          k \in 0..BaseCaseMaxK : BaseCaseExecute(B, S, k)
    \/ \E B \in BaseCaseBounds, S \in BaseCaseSourceSets(GraphSize(basecase.graph)),
          k \in 0..BaseCaseMaxK : BaseCaseExecuteAsserting(B, S, k)

\* a call of BaseCase::Execute with one source inside the graph
BaseCaseValid ==
    /\ basecase.op = "Execute" /\ Len(basecase.S) = 1
    /\ basecase.S[1] >= 0 /\ basecase.S[1] < GraphSize(basecase.graph)

\* C16: BaseCase(B, {x}, k) of duan_sssp settles distinct vertices, x first, in
\* non-decreasing dist order, and stops once the heap is empty or k + 1 vertices are
\* settled; with at most k settled it returns b = B and U = the settled vertices,
\* otherwise b = the maximum dist over the settled vertices and U = the settled
\* vertices with dist < b
C16_BaseCaseSettlesAndReturns ==
    (BaseCaseValid /\ basecase.impl = "duan_sssp")
        => /\ basecase.ret.error = "" /\ basecase.ret.ub = "none"
           /\ basecase.ret.U_0 # <<>> /\ basecase.ret.U_0[1] = basecase.S[1]
           /\ \A i, j \in DOMAIN basecase.ret.U_0 :
                  /\ i # j => basecase.ret.U_0[i] # basecase.ret.U_0[j]
                  /\ i < j => basecase.labels.dist[basecase.ret.U_0[i]]
                                  <= basecase.labels.dist[basecase.ret.U_0[j]]
           /\ Len(basecase.ret.U_0) <= Max2(1, basecase.k + 1)
           /\ Len(basecase.ret.U_0) < basecase.k + 1 => basecase.ret.heap = <<>>
           /\ Len(basecase.ret.U_0) <= basecase.k
                  => basecase.ret.b = basecase.B /\ basecase.ret.U = basecase.ret.U_0
           /\ Len(basecase.ret.U_0) > basecase.k
                  => /\ \A v \in Range(basecase.ret.U_0) :
                            basecase.labels.dist[v] <= basecase.ret.b
                     /\ \E v \in Range(basecase.ret.U_0) :
                            basecase.labels.dist[v] = basecase.ret.b
                     /\ basecase.ret.U
                            = SelectSeq(basecase.ret.U_0,
                                        LAMBDA v : basecase.labels.dist[v] < basecase.ret.b)

\* C16 witness: a call with k = 1 settled two vertices at different distances below
\* a finite B and returned the nearer one, with an element left in the heap
C16_Witness ==
    /\ BaseCaseValid /\ basecase.impl = "duan_sssp" /\ basecase.k = 1
    /\ Len(basecase.ret.U_0) = 2 /\ Len(basecase.ret.U) = 1
    /\ basecase.ret.b < basecase.B /\ basecase.B < INF
    /\ basecase.ret.heap # <<>>

\* C17: in both implementations a call with a source set of another size than one
\* returns NonSingletonSourceSet and a call with one source outside [0, |V|)
\* returns SourceOutOfBounds; the call returns and no label is changed
C17_ErrorsReturned ==
    basecase.op = "Execute"
        => /\ Len(basecase.S) # 1
                  => /\ basecase.ret.ub = "none"
                     /\ basecase.ret.error = "NonSingletonSourceSet"
                     /\ basecase.labels = basecase.before
           /\ (/\ Len(basecase.S) = 1
               /\ (basecase.S[1] < 0 \/ basecase.S[1] >= GraphSize(basecase.graph)))
                  => /\ basecase.ret.ub = "none"
                     /\ basecase.ret.error = "SourceOutOfBounds"
                     /\ basecase.labels = basecase.before

\* C18 as stated: a call with k = 0 and one source returns b = 0 and U = {}
C18_KZeroReturnsZero ==
    (BaseCaseValid /\ basecase.k = 0)
        => /\ basecase.ret.ub = "none" /\ basecase.ret.error = ""
           /\ basecase.ret.b = 0 /\ basecase.ret.U = <<>>

\* C18 amended: a call with k = 0 and one source x returns b = dist[x] and U = {},
\* and changes no label; b = 0 when the label of x is 0
C18_KZeroReturnsSourceLabel ==
    (BaseCaseValid /\ basecase.k = 0)
        => /\ basecase.ret.ub = "none" /\ basecase.ret.error = ""
           /\ basecase.ret.b = basecase.before.dist[basecase.S[1]]
           /\ basecase.ret.U = <<>>
           /\ basecase.labels = basecase.before

\* C18 witness: a call with k = 0 from a vertex that an earlier call labelled 1
C18_Witness ==
    /\ BaseCaseValid /\ basecase.k = 0
    /\ basecase.before.dist[basecase.S[1]] = 1
    /\ basecase.ret.b = 1 /\ basecase.ret.U = <<>>

(***************************************************************************)
(* The metrics ring of the chained hash table: operation_timestamps_ and   *)
(* operation_latencies_ms_ with operation_count_ and operation_index_,     *)
(* slot i of the arrays at index i.  Times are whole milliseconds and      *)
(* latencies whole numbers; recorded is the history of the samples in the  *)
(* order they were recorded.  The mean and the throughput are kept as the  *)
(* terms of their quotients.                                               *)
(***************************************************************************)
CHTMaxRecorded == 5
CHTLatencies == {1, 2}
CHTTimeSteps == {0, 1}

MetricsRingNew ==
    [operation_count |-> 0, operation_index |-> 0,
     operation_timestamps |-> [i \in 0..(CHTMaxTracked - 1) |-> 0],
     operation_latencies_ms |-> [i \in 0..(CHTMaxTracked - 1) |-> 0]]

\* the four lines that end put / get_checked / contains / remove
RecordSample(c, start_time, latency) ==
    RecordOperation([c EXCEPT !.operation_timestamps[c.operation_index] = start_time,
                              !.operation_latencies_ms[c.operation_index] = latency])

RECURSIVE SumLatencies(_, _, _, _)
SumLatencies(c, start_idx, i, ops_to_consider) ==
    IF i >= ops_to_consider THEN 0
    ELSE c.operation_latencies_ms[(start_idx + i) % CHTMaxTracked]
             + SumLatencies(c, start_idx, i + 1, ops_to_consider)

MetricsStartIdx(c, ops_to_consider) ==
    IF c.operation_count >= CHTMaxTracked
    THEN (IF c.operation_index >= ops_to_consider
          THEN c.operation_index - ops_to_consider
          ELSE CHTMaxTracked - (ops_to_consider - c.operation_index))
    ELSE 0

MetricsFirstIdx(c, start_idx) == IF c.operation_count >= CHTMaxTracked THEN start_idx ELSE 0
MetricsLastIdx(c) ==
    IF c.operation_count >= CHTMaxTracked
    THEN (IF c.operation_index > 0 THEN c.operation_index - 1 ELSE CHTMaxTracked - 1)
    ELSE c.operation_count - 1

\* the interval of the throughput, 0 when fewer than two samples are held
MetricsDuration(c, start_idx) ==
    IF c.operation_count >= 2
    THEN c.operation_timestamps[MetricsLastIdx(c)]
             - c.operation_timestamps[MetricsFirstIdx(c, start_idx)]
    ELSE 0

MetricsOver(c, ops_to_consider, start_idx) ==
    [ops_to_consider |-> ops_to_consider,
     total_latency |-> SumLatencies(c, start_idx, 0, ops_to_consider),
     duration |-> MetricsDuration(c, start_idx),
     throughput_ops |-> IF MetricsDuration(c, start_idx) > 0 THEN ops_to_consider * 1000 ELSE 0]

\* get_performance_metrics(last_n_ops): average_latency_ms is total_latency /
\* ops_to_consider, throughput_ops_per_sec is throughput_ops / duration (0 when
\* throughput_ops is 0)
get_performance_metrics(c, last_n_ops) ==
    IF c.operation_count = 0
    THEN [ops_to_consider |-> 0, total_latency |-> 0, duration |-> 0, throughput_ops |-> 0]
    ELSE MetricsOver(c, Min2(Min2(last_n_ops, c.operation_count), CHTMaxTracked),
                     MetricsStartIdx(c, Min2(Min2(last_n_ops, c.operation_count), CHTMaxTracked)))

CHTMetricsNew ==
    [c |-> MetricsRingNew, op |-> "new", recorded |-> <<>>, now |-> 0, last_n_ops |-> 0,
     metrics |-> get_performance_metrics(MetricsRingNew, 0)]

\* one of put / get_checked / contains / remove ends, step milliseconds after the
\* start of the one before
CHTRecord(step, latency) ==
    /\ Len(cht.recorded) < CHTMaxRecorded
    /\ cht' = [cht EXCEPT !.c = RecordSample(cht.c, cht.now + step, latency),
                          !.op = "record", !.now = cht.now + step,
                          !.recorded = Append(@, [time |-> cht.now + step, latency |-> latency])]
    /\ UNCHANGED notCHT

CHTGetPerformanceMetrics(last_n_ops) ==
    /\ cht' = [cht EXCEPT !.op = "get_performance_metrics", !.last_n_ops = last_n_ops,
                          !.metrics = get_performance_metrics(cht.c, last_n_ops)]
    /\ UNCHANGED notCHT

CHTMetricsNext ==
    \/ \E step \in CHTTimeSteps, latency \in CHTLatencies : CHTRecord(step, latency)
    \/ \E last_n_ops \in 1..(CHTMaxTracked + 1) : CHTGetPerformanceMetrics(last_n_ops)

\* the most recent min(last_n, tracked, N) samples, oldest first
MostRecent(recorded, last_n_ops) ==
    SubSeq(recorded,
           Len(recorded) - Min2(Min2(last_n_ops, Len(recorded)), CHTMaxTracked) + 1,
           Len(recorded))

RECURSIVE TotalLatency(_)
TotalLatency(samples) ==
    IF samples = <<>> THEN 0 ELSE Head(samples).latency + TotalLatency(Tail(samples))

\* C21: get_performance_metrics(last_n) computes its results over exactly the
\* most recent min(last_n, tracked, N) recorded operations: their number, the
\* sum of their latencies, and the interval from the first to the last of them
C21_MetricsOverMostRecent ==
    (cht.op = "get_performance_metrics" /\ cht.recorded # <<>>)
        => /\ cht.metrics.ops_to_consider = Len(MostRecent(cht.recorded, cht.last_n_ops))
           /\ cht.metrics.total_latency = TotalLatency(MostRecent(cht.recorded, cht.last_n_ops))
           /\ cht.metrics.duration =
                  MostRecent(cht.recorded, cht.last_n_ops)[cht.metrics.ops_to_consider].time
                      - MostRecent(cht.recorded, cht.last_n_ops)[1].time

(***************************************************************************)
(* Moves of the chained hash table.  cht.c is the table the calls go to    *)
(* and the source of a move; to is the table that was constructed or       *)
(* assigned.  The vector buckets_ of the source is empty after the move    *)
(* (the metrics arrays are copied, which the counters stand for).          *)
(***************************************************************************)
\* HashTable(size_t initial_bucket_count = 16)
DEFAULT_BUCKET_COUNT == 16

\* the source after HashTable(HashTable&&) and operator=(HashTable&&)
HashTable_moved_from(other) ==
    [other EXCEPT !.buckets = <<>>, !.size = 0, !.bucket_count = 0,
                  !.active_hash_function_id = 1,
                  !.operation_count = 0, !.operation_index = 0]

\* get_configuration()
get_configuration(c) ==
    [current_size |-> c.size, bucket_count |-> c.bucket_count,
     active_hash_function_id |-> c.active_hash_function_id]

CHTMoveStep(op, c, to) ==
    /\ cht.c.ub = "none"
    /\ cht' = [c |-> c, op |-> op, pre |-> CHTNoPre, to |-> to]
    /\ UNCHANGED notCHT

\* HashTable to(std::move(c))
CHTMoveConstruct == CHTMoveStep("move_construct", HashTable_moved_from(cht.c), cht.c)

\* to = std::move(c): destroy_buckets() frees what to held, then the same transfer
CHTMoveAssign == CHTMoveStep("move_assign", HashTable_moved_from(cht.c), cht.c)

\* c = std::move(c): this == &other, nothing is done
CHTMoveAssignSelf == CHTMoveStep("move_assign_self", cht.c, cht.c)

CHTMovesNext ==
    \/ \E k \in CHTKeys, v \in CHTVals, ub \in UBOutcomes : CHTPut(k, v, ub)
    \/ \E k \in CHTKeys, ub \in UBOutcomes : CHTContains(k, ub)
    \/ \E k \in CHTKeys, ub \in UBOutcomes : CHTRemove(k, ub)
    \/ CHTMoveConstruct
    \/ CHTMoveAssign
    \/ CHTMoveAssignSelf

\* C22: after a table is move-constructed or move-assigned from, the source is
\* empty with default configuration: size 0, contains(k) false for every key,
\* and get_configuration() that of a default-constructed table
C22_MovedFromIsDefault ==
    cht.op \in {"move_construct", "move_assign"}
        => /\ cht.c.size = 0
           /\ \A k \in CHTKeys, ub \in UBOutcomes :
                  /\ contains(cht.c, k, ub).ub = "none"
                  /\ CHTLookup(cht.c, k, ub) = 0
           /\ get_configuration(cht.c) = get_configuration(HashTableNew(DEFAULT_BUCKET_COUNT))

(***************************************************************************)
(* get_load_factor() of the three hash tables with separate chaining:      *)
(* src/chained_hashtable/hashtable.tpp, its power-of-two variant           *)
(* src/chained_hashtable/hashtable_optimized.tpp and src/hashtable/        *)
(* hashtable.h.  The load factor depends on size_ and bucket_count_ only,  *)
(* so a table is the set of its keys and its bucket count; cht.t is the    *)
(* table, cht.load_factor what the last get_load_factor() returned.  An    *)
(* operation that indexes buckets_ while bucket_count_ is 0 is undefined   *)
(* in every variant (hash % 0, or buckets_[i] of an empty vector): the     *)
(* table is marked and not followed.                                       *)
(***************************************************************************)
LFVariants == {"chained", "chained_optimized", "plain"}
LFMaxKey == 3
LFMaxBuckets == 4
LFKeys == 1..LFMaxKey

\* the double num / den of IEEE 754: x / 0 is a NaN for x = 0, an infinity otherwise
DoubleQuotient(num, den) ==
    IF den # 0 THEN [kind |-> "ratio", num |-> num, den |-> den]
    ELSE IF num = 0 THEN [kind |-> "nan", num |-> 0, den |-> 0]
    ELSE [kind |-> "inf", num |-> num, den |-> 0]

\* get_load_factor()
get_load_factor(t) ==
    IF t.variant = "plain" THEN DoubleQuotient(Cardinality(t.keys), t.bucket_count)
    ELSE IF t.bucket_count = 0 THEN DoubleQuotient(0, 1)
    ELSE DoubleQuotient(Cardinality(t.keys), t.bucket_count)

\* get_load_factor() > 0.75: every comparison with a NaN is false
LoadFactorAbove075(lf) ==
    \/ lf.kind = "inf"
    \/ lf.kind = "ratio" /\ 4 * lf.num > 3 * lf.den

\* the power of two the optimized variant rounds a bucket count up to, at least 1
RECURSIVE RoundUpPowerOfTwo(_, _)
RoundUpPowerOfTwo(power, n) ==
    IF power < n THEN RoundUpPowerOfTwo(power * 2, n) ELSE power

\* HashTable(initial_bucket_count)
LFHashTable(variant, initial_bucket_count) ==
    [variant |-> variant, keys |-> {},
     bucket_count |-> IF variant = "chained_optimized"
                      THEN RoundUpPowerOfTwo(1, initial_bucket_count)
                      ELSE initial_bucket_count,
     ub |-> "none"]

\* execute_resize(new_size): rehash() finds the bucket of every node
LFExecuteResizeOf(t, new_size) ==
    LET n == IF t.variant = "chained_optimized" THEN RoundUpPowerOfTwo(1, new_size)
             ELSE new_size
    IN IF n = 0 /\ t.keys # {} THEN [t EXCEPT !.bucket_count = n, !.ub = "undefined"]
       ELSE [t EXCEPT !.bucket_count = n]

\* put(key, value): grow() doubles the bucket count
LFPutOf(t, key) ==
    LET g == IF LoadFactorAbove075(get_load_factor(t))
             THEN LFExecuteResizeOf(t, t.bucket_count * 2) ELSE t
    IN IF g.ub # "none" THEN g
       ELSE IF g.bucket_count = 0 THEN [g EXCEPT !.ub = "undefined"]
       ELSE [g EXCEPT !.keys = @ \cup {key}]

\* remove(key)
LFRemoveOf(t, key) ==
    IF t.bucket_count = 0 THEN [t EXCEPT !.ub = "undefined"]
    ELSE [t EXCEPT !.keys = @ \ {key}]

\* the source of HashTable(HashTable&&) and operator=(HashTable&&)
LFMovedFrom(t) == [t EXCEPT !.keys = {}, !.bucket_count = 0]

LFNoResult == [kind |-> "none", num |-> 0, den |-> 0]

LFNew(variant, initial_bucket_count) ==
    [t |-> LFHashTable(variant, initial_bucket_count), op |-> "new",
     load_factor |-> LFNoResult]

LFStep(op, t, load_factor) ==
    /\ cht.op # "idle"
    /\ cht.t.ub = "none"
    /\ cht' = [t |-> t, op |-> op, load_factor |-> load_factor]
    /\ UNCHANGED notCHT

LFPut(key) == LFStep("put", LFPutOf(cht.t, key), LFNoResult)
LFRemove(key) == LFStep("remove", LFRemoveOf(cht.t, key), LFNoResult)
LFExecuteResize(new_size) ==
    LFStep("execute_resize", LFExecuteResizeOf(cht.t, new_size), LFNoResult)
LFMove == LFStep("move", LFMovedFrom(cht.t), LFNoResult)
LFGetLoadFactor == LFStep("get_load_factor", cht.t, get_load_factor(cht.t))

LFNext ==
    \/ \E k \in LFKeys : LFPut(k)
    \/ \E k \in LFKeys : LFRemove(k)
    \/ \E n \in 0..LFMaxBuckets : LFExecuteResize(n)
    \/ LFMove
    \/ LFGetLoadFactor

\* C23: in every variant get_load_factor() returns size / bucket_count when
\* bucket_count > 0, and 0 when bucket_count is 0
C23_LoadFactorGuarded ==
    cht.op = "get_load_factor"
        => /\ cht.load_factor.kind = "ratio"
           /\ IF cht.t.bucket_count > 0
              THEN cht.load_factor.num * cht.t.bucket_count
                       = Cardinality(cht.t.keys) * cht.load_factor.den
              ELSE cht.load_factor.num = 0

\* C24: an LRU cache of capacity 0 (constructed so, or moved from) stays empty:
\* every set returns CapacityZero, and after every call size() is 0 and has(k)
\* is false for every key, in the optimized and in the baseline cache
C24_CapacityZeroStaysEmpty ==
    /\ caches.opt.capacity = 0
           => /\ caches.op = "set" => caches.ret.opt.err = "CapacityZero"
              /\ size(caches.opt) = 0
              /\ \A k \in CacheKeys : ~has(caches.opt, k)
    /\ caches.base.capacity = 0
           => /\ caches.op = "set" => caches.ret.base.err = "CapacityZero"
              /\ LRUCacheBaseline_size(caches.base) = 0
              /\ \A k \in CacheKeys : ~LRUCacheBaseline_has(caches.base, k)

\* C24 witness: a set was refused with CapacityZero by both caches after their
\* entries had been moved to another object
C24_Witness ==
    /\ caches.op = "set"
    /\ caches.opt.capacity = 0 /\ caches.base.capacity = 0
    /\ caches.ret.opt.err = "CapacityZero" /\ caches.ret.base.err = "CapacityZero"
    /\ caches.other_opt.size > 0 /\ caches.other_base.list # <<>>

\* C25: a call of the dynamic array that returns an error leaves it as it was:
\* insert and emplace with index > size return IndexOutOfBounds, pop_back of an
\* empty array returns Empty, and size, capacity and every element are those
\* before the call; insert(size, x) returns no error and x is the new last
\* element behind the elements held before
C25_ErrorsLeaveArrayUnchanged ==
    [][/\ vec'.err # "none"
              => /\ vec'.v.size = vec.v.size
                 /\ vec'.v.capacity = vec.v.capacity
                 /\ Elements(vec'.v) = Elements(vec.v)
       /\ \A i \in 0..(VecMaxSize + 1), x \in VecVals :
              (i > vec.v.size /\ (VecInsert(i, x, FALSE) \/ VecEmplace(i, x, FALSE)))
                  => vec'.err = "IndexOutOfBounds"
       /\ (vec.v.size = 0 /\ VecPopBack) => vec'.err = "Empty"
       /\ \A x \in VecVals :
              VecInsert(vec.v.size, x, FALSE)
                  => /\ vec'.err = "none"
                     /\ Elements(vec'.v) = Append(Elements(vec.v), x)]_vars

\* C25 witness: an insert behind the end was refused by an array that was full
\* (size = capacity) and held elements
C25_Witness ==
    /\ vec.op = "insert" /\ vec.err = "IndexOutOfBounds"
    /\ vec.pre.size = vec.pre.capacity /\ vec.pre.size > 0
    /\ vec.v = vec.pre

(***************************************************************************)
(* The diamond graph 0->1, 0->2, 1->3, 2->3 with unit weights, its edges   *)
(* added to the adjacency lists in every order, under the modular engine.  *)
(* duan.edges keeps the order in which the edges were added.               *)
(***************************************************************************)
DiamondN == 4
DiamondEdges == <<<<0, 1, 1>>, <<0, 2, 1>>, <<1, 3, 1>>, <<2, 3, 1>>>>

\* the orders in which the four edges can be added
DiamondOrders ==
    {p \in [DOMAIN DiamondEdges -> DOMAIN DiamondEdges] :
        \A i, j \in DOMAIN DiamondEdges : i # j => p[i] # p[j]}

\* g[u].push_back({v, w}) for the edges of a list, in the order of the list
RECURSIVE PushEdges(_, _, _)
PushEdges(graph, edges, i) ==
    IF i > Len(edges) THEN graph
    ELSE PushEdges([u \in DOMAIN graph |->
                       IF u = edges[i][1]
                       THEN Append(graph[u], [to |-> edges[i][2], weight |-> edges[i][3]])
                       ELSE graph[u]],
                   edges, i + 1)

\* Graph g(n) and the push_back calls
GraphFromEdges(n, edges) == PushEdges([u \in 0..(n - 1) |-> <<>>], edges, 1)

DiamondNew(p, order) ==
    LET edges == [i \in DOMAIN DiamondEdges |-> DiamondEdges[p[i]]]
    IN [op |-> "input", graph |-> GraphFromEdges(DiamondN, edges), source |-> 0,
        order |-> order, result |-> DuanNoResult, edges |-> edges]

\* C26: on the diamond graph, in whatever order its edges were added,
\* ComputeSSSP from vertex 0 returns dist[3] = 2 and pred[3] = 1
C26_DiamondPredecessor ==
    (duan.op = "ComputeSSSP" /\ duan.graph = GraphFromEdges(DiamondN, duan.edges))
        => /\ duan.result.ub = "none"
           /\ duan.result.labels.dist[3] = 2
           /\ duan.result.labels.pred[3] = 1

(***************************************************************************)
(* Modular checksum (modular_checksum/sum.cpp): compute(n).  The operands  *)
(* of mul are below MOD and the code multiplies them in 128 bits, so the   *)
(* product never wraps; here the same residue is reached by doubling,      *)
(* which keeps every intermediate value below 2 * MOD.                     *)
(***************************************************************************)
MOD == 1000000007
INV2 == 500000004
INV6 == 166666668

add(a, b) == IF a + b >= MOD THEN a + b - MOD ELSE a + b
sub(a, b) == IF a - b < 0 THEN a - b + MOD ELSE a - b

\* (a * b) % MOD for 0 <= a < MOD, 0 <= b
RECURSIVE mul(_, _)
mul(a, b) ==
    IF a = 0 \/ b = 0 THEN 0
    ELSE IF b % 2 = 1 THEN add(mul(add(a, a), b \div 2), a)
    ELSE mul(add(a, a), b \div 2)

\* value % MOD of C++ truncates towards zero
normalize(value) ==
    IF value >= 0 THEN value % MOD
    ELSE IF (-value) % MOD = 0 THEN 0 ELSE MOD - ((-value) % MOD)

sum_1_to_n(x) ==
    IF x <= 0 THEN 0
    ELSE mul(mul(normalize(x), add(normalize(x), 1)), INV2)

sum_squares_1_to_n(x) ==
    IF x <= 0 THEN 0
    ELSE mul(mul(mul(normalize(x), add(normalize(x), 1)), add(mul(2, normalize(x)), 1)),
             INV6)

\* sum_range with the lower sum taken up to left
sum_range_from_left(left, right) == sub(sum_1_to_n(right), sum_1_to_n(left))

sum_range(left, right) == sub(sum_1_to_n(right), sum_1_to_n(left - 1))

sum_squares_range(left, right) ==
    sub(sum_squares_1_to_n(right), sum_squares_1_to_n(left - 1))

\* the contribution of the block j..block_end, on which n / j = quotient
BlockContribution(n, j, quotient, block_end) ==
    LET n_mod == normalize(n)
        q_mod == quotient % MOD
        term1 == mul(mul(q_mod, add(q_mod, 1)), sum_squares_range(j, block_end))
        term2 == mul(mul(mul(2, q_mod), add(n_mod, 1)), sum_range(j, block_end))
        term3 == mul(add(mul(n_mod, n_mod), n_mod), (block_end - j + 1) % MOD)
    IN mul(INV2, add(sub(term1, term2), term3))

\* the loop "for (j = 1; j <= n; )" of compute
RECURSIVE ComputeLoop(_, _, _)
ComputeLoop(n, j, total) ==
    IF j > n THEN total
    ELSE ComputeLoop(n, (n \div (n \div j)) + 1,
                     add(total, BlockContribution(n, j, n \div j, n \div (n \div j))))

\* compute(n)
compute(n) == IF n <= 0 THEN 0 ELSE mul(2, ComputeLoop(n, 1, 0))

\* compute is called for every n from -1 to ChecksumMaxN
ChecksumMaxN == 64

ChecksumNew(n) == [op |-> "input", n |-> n, result |-> 0]

ChecksumCompute ==
    /\ checksum.op = "input"
    /\ checksum' = [checksum EXCEPT !.op = "compute", !.result = compute(checksum.n)]
    /\ UNCHANGED notChecksum

ChecksumNext == ChecksumCompute

\* the sum over j in lo..hi of (i mod j) + (j mod i), by halves
RECURSIVE RowSum(_, _, _)
RowSum(i, lo, hi) ==
    IF lo > hi THEN 0
    ELSE IF lo = hi THEN (i % lo) + (lo % i)
    ELSE RowSum(i, lo, (lo + hi) \div 2) + RowSum(i, ((lo + hi) \div 2) + 1, hi)

\* the sum of the rows lo..hi of the double sum over i, j in 1..n
RECURSIVE RowsSum(_, _, _)
RowsSum(n, lo, hi) ==
    IF lo > hi THEN 0
    ELSE IF lo = hi THEN RowSum(lo, 1, n)
    ELSE RowsSum(n, lo, (lo + hi) \div 2) + RowsSum(n, ((lo + hi) \div 2) + 1, hi)

DoubleSum(n) == RowsSum(n, 1, n)

\* C27: compute(n) is the double sum over i, j in 1..n of (i mod j) + (j mod i)
\* modulo 1 000 000 007 for n >= 1, and 0 for n = 0; so compute(1) = 0,
\* compute(2) = 2 and compute(10) = 430
C27_ComputeIsDoubleSum ==
    checksum.op = "compute"
        => /\ checksum.n >= 1 => checksum.result = DoubleSum(checksum.n) % MOD
           /\ checksum.n = 0 => checksum.result = 0
           /\ checksum.n = 1 => checksum.result = 0
           /\ checksum.n = 2 => checksum.result = 2
           /\ checksum.n = 10 => checksum.result = 430

\* C27 witness: compute returned for an n whose loop ran over several blocks, two
\* of them longer than one value of j
C27_Witness ==
    /\ checksum.op = "compute" /\ checksum.n = 10
    /\ checksum.result = 430
    /\ 10 \div 4 = 10 \div 5 /\ 10 \div 6 = 10 \div 10

(***************************************************************************)
(* The label writes of an SSSP run, one step per relaxation site.  Every   *)
(* write of dist in the two engines is the edge step of one of the loops   *)
(* below, applied to the labels of the moment with                         *)
(* new_dist = dist[u] + weight of an edge (u, v) of the graph; a step here *)
(* applies one site to any edge, in any order and with any bound.          *)
(***************************************************************************)

RelaxMaxEdges == 3

\* the bounds B, B_i and b_i a site compares new_dist with
RelaxBounds == {1, 2, INF}

\* the lengths of the simple paths from u to v that avoid the vertices of visited
RECURSIVE PathLengths(_, _, _, _)
PathLengths(graph, u, v, visited) ==
    IF u = v THEN {0}
    ELSE UNION {{graph[u][i].weight + d :
                     d \in PathLengths(graph, graph[u][i].to, v, visited \cup {u})} :
                i \in {j \in DOMAIN graph[u] : graph[u][j].to \notin visited \cup {u}}}

RelaxNew(graph, source) ==
    [op |-> "reset", graph |-> graph, source |-> source,
     labels |-> SourceLabels(GraphSize(graph), source)]

RelaxInputs ==
    UNION {{RelaxNew(GraphOf(n, E), source) :
                E \in EdgeSets(EdgeTriples(n, 0..DuanMaxWeight), RelaxMaxEdges),
                source \in 0..(n - 1)} : n \in 1..DuanMaxN}

RelaxSites == {"reset", "RelaxLayer", "BaseCase::Execute", "RelaxAndClassify",
               "FindPivots", "BaseCase", "BMSSP", "finalize_with_dijkstra"}

\* the labels a site leaves become the labels of the run
RelaxStep(site, labels) ==
    /\ labels # duan.labels
    /\ duan' = [duan EXCEPT !.op = site, !.labels = labels]
    /\ UNCHANGED notDuan

\* duan_sssp RelaxLayer, and BaseCase when new_dist < B: try_relax on an edge
RelaxLayerStep(u, i) ==
    RelaxStep("RelaxLayer",
              try_relax(duan.labels, u, duan.graph[u][i].to,
                        DistAdd(duan.labels.dist[u], duan.graph[u][i].weight)).labels)

\* BaseCase::Execute: the relaxation of an edge of the popped vertex
BaseCaseExecuteStep(u, i, B) ==
    RelaxStep("BaseCase::Execute",
              BaseCaseRelaxEdge([labels |-> duan.labels, heap |-> <<>>, U_0 |-> <<>>], B, u,
                                duan.graph[u][i].to,
                                DistAdd(duan.labels.dist[u], duan.graph[u][i].weight)).labels)

\* BMSSP::RelaxAndClassify: the relaxation of an edge of a vertex of U_i
RelaxAndClassifyStep(u, i, b_i, B_i, B) ==
    RelaxStep("RelaxAndClassify",
              RelaxAndClassifyEdge([labels |-> duan.labels, DS |-> Initialize(2, B),
                                    K |-> <<>>],
                                   u, duan.graph[u][i].to,
                                   DistAdd(duan.labels.dist[u], duan.graph[u][i].weight),
                                   b_i, B_i, B).labels)

\* DMSY_SSSP::FindPivots: the relaxation of an edge of a layer vertex
PivotStep(u, i, B) ==
    RelaxStep("FindPivots",
              PivotEdge([L |-> duan.labels, W |-> <<>>, Wi_next |-> <<>>], B, u,
                        duan.graph[u][i].to,
                        DistAdd(duan.labels.dist[u], duan.graph[u][i].weight)).L)

\* DMSY_SSSP::BaseCase: the relaxation of an edge of the popped vertex
MiniDijkstraStep(u, i, B) ==
    RelaxStep("BaseCase",
              MiniDijkstraEdge([L |-> duan.labels, pq |-> <<>>, U0 |-> <<>>], B, u,
                               duan.graph[u][i].to,
                               DistAdd(duan.labels.dist[u], duan.graph[u][i].weight)).L)

\* DMSY_SSSP::BMSSP: the relaxation of an edge of a vertex of Ui
BatchStep(u, i, Bi_prime, Bi, B) ==
    RelaxStep("BMSSP",
              BatchEdge([L |-> duan.labels,
                         D |-> MonoInitialize(MonoNew("ascending"), 2, B),
                         Kbatch |-> <<>>],
                        u, duan.graph[u][i].to,
                        DistAdd(duan.labels.dist[u], duan.graph[u][i].weight),
                        Bi_prime, Bi, B).L)

\* finalize_with_dijkstra: the relaxation of an edge of the popped vertex
\* (a popped key that passes the staleness test is the label of its vertex)
FinalizeStep(u, i) ==
    /\ duan.labels.dist[u] < INF_LD
    /\ RelaxStep("finalize_with_dijkstra",
                 FinalizeEdge([L |-> duan.labels, pq |-> <<>>], u, duan.graph[u][i].to,
                              DistAdd(duan.labels.dist[u], duan.graph[u][i].weight)).L)

\* the edges of the graph: the vertex and the index in its adjacency list
RelaxEdges ==
    {e \in (DOMAIN duan.graph) \X (1..RelaxMaxEdges) : e[2] \in DOMAIN duan.graph[e[1]]}

RelaxNext ==
    \/ \E e \in RelaxEdges : RelaxLayerStep(e[1], e[2])
    \/ \E e \in RelaxEdges, B \in RelaxBounds : BaseCaseExecuteStep(e[1], e[2], B)
    \/ \E e \in RelaxEdges, b_i \in RelaxBounds, B_i \in RelaxBounds, B \in RelaxBounds :
           RelaxAndClassifyStep(e[1], e[2], b_i, B_i, B)
    \/ \E e \in RelaxEdges, B \in RelaxBounds : PivotStep(e[1], e[2], B)
    \/ \E e \in RelaxEdges, B \in RelaxBounds : MiniDijkstraStep(e[1], e[2], B)
    \/ \E e \in RelaxEdges, Bi_prime \in RelaxBounds, Bi \in RelaxBounds, B \in RelaxBounds :
           BatchStep(e[1], e[2], Bi_prime, Bi, B)
    \/ \E e \in RelaxEdges : FinalizeStep(e[1], e[2])

\* every finite dist[v] is the length of a simple path from the source to v, and
\* no label is below the true distance
DistIsPathLength ==
    duan.op \in RelaxSites
        => \A v \in DOMAIN duan.graph :
               /\ duan.labels.dist[v] < INF
                      => duan.labels.dist[v]
                             \in PathLengths(duan.graph, duan.source, v, {})
               /\ duan.labels.dist[v] >= ShortestDistances(duan.graph, duan.source)[v]

\* C28: at every point of a run every finite dist[v] is the length of a path from
\* the source to v, hence at least the true distance of v, and no write to dist[v]
\* increases it
C28_DistIsPathLengthAndNeverIncreases ==
    /\ []DistIsPathLength
    /\ [][duan.op \in RelaxSites
              => \A v \in DOMAIN duan.graph :
                     duan'.labels.dist[v] <= duan.labels.dist[v]]_vars

\* a label written above the true distance, by a path that is not a shortest one
C28_Witness ==
    /\ duan.op \in RelaxSites \ {"reset"}
    /\ \E v \in DOMAIN duan.graph :
           /\ duan.labels.dist[v] < INF
           /\ duan.labels.dist[v] > ShortestDistances(duan.graph, duan.source)[v]

(***************************************************************************)
(* The representation of the optimized LRU cache: the slots of nodes_, the *)
(* list from lru_head_, the bucket table and the free list from            *)
(* free_head_.                                                             *)
(***************************************************************************)
OccupiedSlots(c) == {i \in DOMAIN c.nodes : c.nodes[i].occupied}

\* the indices met from idx on by following next until INVALID_INDEX; an index
\* that is no slot of nodes_ ends the walk
RECURSIVE ChainFrom(_, _, _)
ChainFrom(nodes, idx, fuel) ==
    IF idx = INVALID_INDEX \/ fuel = 0 THEN <<>>
    ELSE IF idx \notin DOMAIN nodes THEN <<idx>>
    ELSE <<idx>> \o ChainFrom(nodes, nodes[idx].next, fuel - 1)

LruList(c) == ChainFrom(c.nodes, c.lru_head, c.capacity + 1)
FreeList(c) == ChainFrom(c.nodes, c.free_head, c.capacity + 1)

\* the sequence s holds every member of S once and nothing else
ExactlyOnce(s, S) == Len(s) = Cardinality(S) /\ Range(s) = S

OccupiedBuckets(c) == {b \in DOMAIN c.buckets : is_occupied(c.buckets[b])}

\* exactly size slots are occupied
SizeSlotsOccupied(c) == Cardinality(OccupiedSlots(c)) = c.size

\* each occupied slot is linked once into the list from lru_head_ to lru_tail_
LinkedOnce(c) ==
    /\ ExactlyOnce(LruList(c), OccupiedSlots(c))
    /\ c.lru_tail = IF LruList(c) = <<>> THEN INVALID_INDEX ELSE LruList(c)[Len(LruList(c))]
    /\ \A i \in DOMAIN LruList(c) :
           c.nodes[LruList(c)[i]].prev = IF i = 1 THEN INVALID_INDEX ELSE LruList(c)[i - 1]

\* each occupied slot is referenced once from the bucket table, which refers to
\* occupied slots only
ReferencedOnce(c) ==
    /\ \A i \in OccupiedSlots(c) :
           Cardinality({b \in OccupiedBuckets(c) : c.buckets[b].node_index = i}) = 1
    /\ \A b \in OccupiedBuckets(c) : c.buckets[b].node_index \in OccupiedSlots(c)

\* the bucket table holds no key twice
NoKeyTwice(c) ==
    \A a \in OccupiedBuckets(c), b \in OccupiedBuckets(c) :
        a # b => c.nodes[c.buckets[a].node_index].key # c.nodes[c.buckets[b].node_index].key

\* the free list holds exactly the unoccupied slots
FreeListIsUnoccupied(c) == ExactlyOnce(FreeList(c), DOMAIN c.nodes \ OccupiedSlots(c))

\* everything but the free list
LinkedAndReferenced(c) ==
    SizeSlotsOccupied(c) /\ LinkedOnce(c) /\ ReferencedOnce(c) /\ NoKeyTwice(c)

\* C32: after any sequence of set, get, get_ref, clear and moves exactly size slots
\* are occupied, each occupied slot is linked once into the MRU-to-LRU list and
\* referenced once from the bucket table, the bucket table holds no key twice, and
\* the free list holds exactly the unoccupied slots
C32_SlotsListBucketsFreeList ==
    caches.op # "idle"
        => \A c \in {caches.opt, caches.other_opt} :
               LinkedAndReferenced(c) /\ FreeListIsUnoccupied(c)

\* what holds: all of it for a cache that has slots or was moved from; for a cache
\* constructed with item_limit 0 all but the free list
LRUStructureButZeroFreeList ==
    caches.op # "idle"
        => \A c \in {caches.opt, caches.other_opt} :
               /\ LinkedAndReferenced(c)
               /\ (c.capacity > 0 \/ c.free_head = INVALID_INDEX) => FreeListIsUnoccupied(c)
               /\ (c.capacity = 0 /\ c.free_head # INVALID_INDEX)
                      => c.free_head = 0 /\ c.nodes = <<>>

(***************************************************************************)
(* The location index and the block-bound map of the structure.            *)
(***************************************************************************)
StoredKeys(ds) == {e.key : e \in Contents(ds)}

\* the entry of key designates a block that is in its sequence and holds key
DesignatesHolder(ds, key) ==
    LET loc == ds.key_locations_[key]
        sequence == IF loc.sequence_id = 1 THEN ds.D1_ ELSE ds.D0_
    IN /\ ~Dangling(ds, loc)
       /\ \E i \in DOMAIN sequence :
              /\ sequence[i].id = loc.blk
              /\ \E j \in DOMAIN sequence[i].elements : sequence[i].elements[j].key = key

\* C33: after any sequence of Initialize, Insert, BatchPrepend and Pull, the
\* location index has an entry exactly for the keys stored, each entry designates
\* the block and element that hold the key, and neither the index nor the
\* block-bound map refers to a block that has been removed
C33_IndexAndBoundsDesignateLiveBlocks ==
    (pods.op # "idle" /\ pods.ds.ub = "none")
        => /\ DOMAIN pods.ds.key_locations_ = StoredKeys(pods.ds)
           /\ \A key \in DOMAIN pods.ds.key_locations_ : DesignatesHolder(pods.ds, key)
           /\ \A b \in DOMAIN pods.ds.D1_bounds_ : pods.ds.D1_bounds_[b] \in LiveD1(pods.ds)

\* C34: Pull removes from the structure exactly the keys it returns and no others
\* (every other element stays as it was), it returns only keys that were stored,
\* none of them twice, and at most M of them
C34_PullRemovesWhatItReturns ==
    (pods.op = "Pull" /\ pods.ds.ub = "none")
        => /\ Len(pods.pulled.keys) <= pods.ds.M_
           /\ Cardinality(PulledKeys) = Len(pods.pulled.keys)
           /\ PulledKeys \subseteq {e.key : e \in pods.pulled.before}
           /\ Contents(pods.ds) = {e \in pods.pulled.before : e.key \notin PulledKeys}

\* C35: after every Insert, BatchPrepend and Pull, every block of D0 and D1 holds
\* at most M key-value pairs, M being the parameter of the last Initialize
C35_BlocksHoldAtMostM ==
    (pods.op \in {"Insert", "BatchPrepend", "Pull"} /\ pods.ds.ub = "none")
        => \A sequence \in {pods.ds.D0_, pods.ds.D1_} :
               \A i \in DOMAIN sequence : Len(sequence[i].elements) <= pods.ds.M_

\* C36: every call of BatchPrepend returns whatever the block size M >= 1 and the
\* list (the recursion that builds the blocks reaches its base case), and the
\* entries the call has added to the structure are stored in D0
C36_BatchPrependReturns ==
    [][(pods.op # "idle" /\ pods.ds.ub = "none" /\ pods'.op = "BatchPrepend")
           => /\ pods'.ds.ub # "overflow"
              /\ pods'.ds.ub = "none"
                     => \A e \in Contents(pods'.ds) \ Contents(pods.ds) :
                            \E i \in DOMAIN pods'.ds.D0_ :
                                \E j \in DOMAIN pods'.ds.D0_[i].elements :
                                    pods'.ds.D0_[i].elements[j] = e]_vars

(***************************************************************************)
(* FindPivots::Execute called directly, as test_find_pivots.cpp calls it:  *)
(* on the labels after reset with dist = 0 and hops = 0 on S, for every    *)
(* graph of at most DuanMaxN vertices given as adjacency lists of at most  *)
(* DuanMaxEdges different edges, one of which may be listed twice.         *)
(***************************************************************************)
FindPivotsMaxK == 3

\* g[u].push_back(g[u][i]): the edge listed once more
EdgeListedTwice(graph, u, i) == [graph EXCEPT ![u] = Append(@, @[i])]

FindPivotsGraphs(n) ==
    LET simple == {GraphOf(n, E) : E \in EdgeSets(EdgeTriples(n, 0..DuanMaxWeight), DuanMaxEdges)}
    IN simple \cup UNION {UNION {{EdgeListedTwice(g, u, i) : i \in DOMAIN g[u]} :
                                     u \in DOMAIN g} : g \in simple}

FindPivotsInputs ==
    UNION {{DuanNew(g, source, order) :
                g \in FindPivotsGraphs(n), source \in 0..(n - 1), order \in UnorderedOrders} :
               n \in 1..DuanMaxN}

FindPivotsCall(B, S, k) ==
    /\ duan.op = "input"
    /\ duan' = [duan EXCEPT !.op = "FindPivots",
                            !.result = [S |-> S, k |-> k, B |-> B,
                                        fp |-> FindPivots_Execute(
                                                   duan.graph,
                                                   SourcesLabels(GraphSize(duan.graph), S),
                                                   B, S, k, duan.order)]]
    /\ UNCHANGED notDuan

FindPivotsNext ==
    /\ duan.op = "input"
    /\ \E B \in DuanBounds, k \in 1..FindPivotsMaxK,
          S \in DuanSourceSets(GraphSize(duan.graph), duan.source) \cup {<<>>} :
           FindPivotsCall(B, S, k)

\* the vertices of the subtree of u in the predecessor forest restricted to W
SubtreeVertices(graph, labels, W_set, u) ==
    ForestReach(BuildForest(graph, labels, W_set), {u}, {})

\* C37: FindPivots returns P as a subset of S: P = S when |W| exceeds k|S| at
\* one of the relaxation rounds (W only grows and is returned as it is at the
\* exit, so this is when the W returned exceeds k|S|), and otherwise P is exactly
\* the set of the u in S whose subtree in the predecessor forest restricted to W
\* has at least k vertices
C37_PivotsAreRootsOfLargeSubtrees ==
    (duan.op = "FindPivots" /\ duan.result.fp.ub = "none")
        => LET r == duan.result.fp
               S == duan.result.S
               k == duan.result.k
           IN /\ Range(r.P) \subseteq Range(S)
              /\ IF Cardinality(Range(r.W)) > k * Len(S)
                 THEN r.P = S
                 ELSE Range(r.P)
                          = {u \in Range(S) :
                                 Cardinality(SubtreeVertices(duan.graph, r.labels,
                                                             Range(r.W), u)) >= k}

(***************************************************************************)
(* The chains of the chained hash table.                                   *)
(***************************************************************************)
\* the nodes of the table: <<bucket, position in the chain>>
CHTNodes(c) ==
    UNION {{<<i - 1, j>> : j \in DOMAIN c.buckets[i]} : i \in DOMAIN c.buckets}

NodeKey(c, node) == c.buckets[node[1] + 1][node[2]].key

\* C38: after any sequence of put, remove, automatic growth, execute_resize and
\* execute_change_hash_function that the process survives, no key is in two chain
\* nodes, every node is in bucket h(key) mod b of its key for the active hash
\* function h and the bucket count b, and size is the total number of nodes
C38_ChainsHoldEachKeyOnceInItsBucket ==
    (cht.op # "idle" /\ cht.c.ub # "crash")
        => /\ \A m, n \in CHTNodes(cht.c) :
                  NodeKey(cht.c, m) = NodeKey(cht.c, n) => m = n
           /\ \A n \in CHTNodes(cht.c) :
                  /\ cht.c.bucket_count > 0
                  /\ n[1] = U64Mod(HashValue[cht.c.active_hash_function_id, NodeKey(cht.c, n)],
                                   cht.c.bucket_count)
           /\ cht.c.size = Cardinality(CHTNodes(cht.c))

\* C39: in every state reachable through construction, growth, execute_resize
\* with any argument and the calls on the table, put, get_checked, contains,
\* remove and rehash have only accessed positions of buckets_ below its length
\* (ub records an access at or above it)
C39_AccessesWithinBuckets ==
    cht.op # "idle" => cht.c.ub = "none"

(***************************************************************************)
(* Two dynamic arrays a and b under the calls of the array on either of    *)
(* them and the copies and moves between them.  vec.on is the array the    *)
(* last call was made on and vec.pre that array before the call.           *)
(***************************************************************************)
VecNames == {"a", "b"}
\* the elements stored: one value, as the claim is about sizes and capacities
VecPairVals == {VecMaxVal}
OtherVec(w) == IF w = "a" THEN "b" ELSE "a"

\* vector(const vector& other)
vector_copy(other) ==
    [data |-> [i \in 1..other.capacity |-> IF i <= other.size THEN other.data[i] ELSE VecRaw],
     size |-> other.size, capacity |-> other.capacity, trivial |-> other.trivial]

\* other after vector(vector&& other) and operator=(vector&& other)
vector_moved_from(other) == [other EXCEPT !.data = <<>>, !.size = 0, !.capacity = 0]

VecPairNew(trivial) ==
    [a |-> VecNew(trivial).v, b |-> VecNew(trivial).v, op |-> "new", on |-> "a",
     pre |-> VecNew(trivial).v]

\* a call on the array w that leaves it as v and the other array as other
VecPairStep(op, w, v, other) ==
    /\ vec' = [vec EXCEPT ![w] = v, ![OtherVec(w)] = other, !.op = op, !.on = w,
                          !.pre = vec[w]]
    /\ UNCHANGED notVec

VecPairCall(op, w, v) == VecPairStep(op, w, v, vec[OtherVec(w)])

VecPairPushBack(w, x, throws) ==
    /\ vec[w].size < VecMaxSize
    /\ VecPairCall("push_back", w, emplace_back(vec[w], x, throws).v)
VecPairEmplaceBack(w, x, throws) ==
    /\ vec[w].size < VecMaxSize
    /\ VecPairCall("emplace_back", w, emplace_back(vec[w], x, throws).v)
VecPairInsert(w, index, x, throws) ==
    /\ vec[w].size < VecMaxSize
    /\ VecPairCall("insert", w, emplace_impl(vec[w], index, x, throws).v)
VecPairEmplace(w, index, x, throws) ==
    /\ vec[w].size < VecMaxSize
    /\ VecPairCall("emplace", w, emplace_impl(vec[w], index, x, throws).v)
VecPairPopBack(w) == VecPairCall("pop_back", w, pop_back(vec[w]).v)
VecPairReserve(w, newCapacity) == VecPairCall("reserve", w, reserve(vec[w], newCapacity))
VecPairShrinkToFit(w) == VecPairCall("shrinkToFit", w, shrinkToFit(vec[w]))

\* vector w(other): the array w is constructed anew as a copy of the other
VecPairCopyConstruct(w) ==
    VecPairCall("copy_construct", w, vector_copy(vec[OtherVec(w)]))
\* vector w(std::move(other))
VecPairMoveConstruct(w) ==
    VecPairStep("move_construct", w, vec[OtherVec(w)], vector_moved_from(vec[OtherVec(w)]))
\* w = other: vector temp(other); swap(temp)
VecPairCopyAssign(w) ==
    VecPairCall("copy_assign", w, vector_copy(vec[OtherVec(w)]))
\* w = std::move(other): clear(), delete data_, then the transfer
VecPairMoveAssign(w) ==
    VecPairStep("move_assign", w, vec[OtherVec(w)], vector_moved_from(vec[OtherVec(w)]))
\* w = w and w = std::move(w): this == &other, nothing is done
VecPairAssignSelf(w) == VecPairCall("assign_self", w, vec[w])

VecPairNext ==
    \/ \E w \in VecNames, x \in VecPairVals, t \in BOOLEAN : VecPairPushBack(w, x, t)
    \/ \E w \in VecNames, x \in VecPairVals, t \in BOOLEAN : VecPairEmplaceBack(w, x, t)
    \/ \E w \in VecNames, i \in 0..(VecMaxSize + 1), x \in VecPairVals, t \in BOOLEAN :
           VecPairInsert(w, i, x, t)
    \/ \E w \in VecNames, i \in 0..(VecMaxSize + 1), x \in VecPairVals, t \in BOOLEAN :
           VecPairEmplace(w, i, x, t)
    \/ \E w \in VecNames : VecPairPopBack(w)
    \/ \E w \in VecNames, n \in 0..VecMaxReserve : VecPairReserve(w, n)
    \/ \E w \in VecNames : VecPairShrinkToFit(w)
    \/ \E w \in VecNames : VecPairCopyConstruct(w)
    \/ \E w \in VecNames : VecPairMoveConstruct(w)
    \/ \E w \in VecNames : VecPairCopyAssign(w)
    \/ \E w \in VecNames : VecPairMoveAssign(w)
    \/ \E w \in VecNames : VecPairAssignSelf(w)

\* C40: after any sequence of push_back, emplace_back, insert, emplace, pop_back,
\* reserve, shrinkToFit, copies and moves, also on an array that was moved from
\* or shrunk to capacity 0, every array has 0 <= size <= capacity, capacity
\* being the number of slots of its storage
C40_SizeWithinCapacity ==
    vec.op # "idle"
        => \A w \in VecNames :
               /\ 0 <= vec[w].size
               /\ vec[w].size <= vec[w].capacity
               /\ Len(vec[w].data) = vec[w].capacity

\* an element was appended to an array of capacity 0 (moved from, or shrunk to
\* fit while empty) while the other array holds elements up to its capacity
C40_Witness ==
    /\ vec.op \in {"push_back", "emplace_back", "insert", "emplace"}
    /\ vec.pre.capacity = 0
    /\ vec[vec.on].size = 1
    /\ vec[vec.on].capacity = kInitialCapacity
    /\ vec[OtherVec(vec.on)].size > 0
    /\ vec[OtherVec(vec.on)].size = vec[OtherVec(vec.on)].capacity

(***************************************************************************)
(* Specifications: one per core.                                           *)
(***************************************************************************)
\* the value of a core's variable under the specifications of the other cores
Idle == [op |-> "idle"]

RHInit ==
    /\ vec = Idle /\ lru = Idle /\ cht = Idle /\ pods = Idle /\ mpods = Idle /\ duan = Idle /\ dmsy = Idle /\ caches = Idle /\ basecase = Idle /\ checksum = Idle
    /\ rh = RHNew
SpecRH == RHInit /\ [][RHNext]_vars

VecInit ==
    /\ rh = Idle /\ lru = Idle /\ cht = Idle /\ pods = Idle /\ mpods = Idle /\ duan = Idle /\ dmsy = Idle /\ caches = Idle /\ basecase = Idle /\ checksum = Idle
    /\ vec \in {VecNew(t) : t \in BOOLEAN}
SpecVec == VecInit /\ [][VecNext]_vars
SpecVecThrow == VecInit /\ [][VecNextThrow]_vars

LRUInit ==
    /\ rh = Idle /\ vec = Idle /\ cht = Idle /\ pods = Idle /\ mpods = Idle /\ duan = Idle /\ dmsy = Idle /\ caches = Idle /\ basecase = Idle /\ checksum = Idle
    /\ lru \in {LRUNew(n) : n \in 0..LRUMaxCap}
SpecLRU == LRUInit /\ [][LRUNext]_vars

CHTInit ==
    /\ rh = Idle /\ vec = Idle /\ lru = Idle /\ pods = Idle /\ mpods = Idle /\ duan = Idle /\ dmsy = Idle /\ caches = Idle /\ basecase = Idle /\ checksum = Idle
    /\ cht \in {CHTNew(n) : n \in 0..CHTMaxBuckets}
SpecCHT == CHTInit /\ [][CHTNext]_vars

PODSInit ==
    /\ rh = Idle /\ vec = Idle /\ lru = Idle /\ cht = Idle /\ mpods = Idle /\ duan = Idle /\ dmsy = Idle /\ caches = Idle /\ basecase = Idle /\ checksum = Idle
    /\ pods \in {PODSNew(M, B) : M \in 1..PODSMaxM, B \in PODSBounds}
SpecPODS == PODSInit /\ [][PODSNext]_vars

PODSOffersInit ==
    /\ rh = Idle /\ vec = Idle /\ lru = Idle /\ cht = Idle /\ mpods = Idle /\ duan = Idle /\ dmsy = Idle /\ caches = Idle /\ basecase = Idle /\ checksum = Idle
    /\ pods \in {PODSOffersNew(M, B) : M \in 1..PODSMaxM, B \in PODSBounds}
SpecPODSOffers == PODSOffersInit /\ [][PODSOffersNext]_vars

PODSWideInit ==
    /\ rh = Idle /\ vec = Idle /\ lru = Idle /\ cht = Idle /\ mpods = Idle /\ duan = Idle /\ dmsy = Idle /\ caches = Idle /\ basecase = Idle /\ checksum = Idle
    /\ pods \in {PODSNew(PODSMaxM, B) : B \in PODSBounds}
SpecPODSWide == PODSWideInit /\ [][PODSWideNext]_vars


MPODSInit ==
    /\ rh = Idle /\ vec = Idle /\ lru = Idle /\ cht = Idle /\ pods = Idle /\ duan = Idle /\ dmsy = Idle /\ caches = Idle /\ basecase = Idle /\ checksum = Idle
    /\ mpods \in {MPODSNew(M, B, a) : M \in 1..PODSMaxM, B \in PODSBounds, a \in AddressOrders}
SpecMPODS == MPODSInit /\ [][MPODSNext]_vars


DuanInit ==
    /\ rh = Idle /\ vec = Idle /\ lru = Idle /\ cht = Idle /\ pods = Idle /\ mpods = Idle /\ dmsy = Idle /\ caches = Idle /\ basecase = Idle /\ checksum = Idle
    /\ duan \in DuanInputs
SpecDuan == DuanInit /\ [][DuanNext]_vars


DMSYInit ==
    /\ rh = Idle /\ vec = Idle /\ lru = Idle /\ cht = Idle /\ pods = Idle /\ mpods = Idle /\ duan = Idle /\ caches = Idle /\ basecase = Idle /\ checksum = Idle
    /\ dmsy \in DMSYInputs
SpecDMSY == DMSYInit /\ [][DMSYNext]_vars


\* the two engines side by side: each behaviour runs one of them
BMSSPInit ==
    /\ rh = Idle /\ vec = Idle /\ lru = Idle /\ cht = Idle /\ pods = Idle /\ mpods = Idle /\ caches = Idle /\ basecase = Idle /\ checksum = Idle
    /\ \/ duan \in DuanInputs /\ dmsy = Idle
       \/ duan = Idle /\ dmsy \in DMSYInputs
BMSSPNext == DuanNext \/ DMSYNext
SpecBMSSP == BMSSPInit /\ [][BMSSPNext]_vars

CachesInit ==
    /\ rh = Idle /\ vec = Idle /\ lru = Idle /\ cht = Idle /\ pods = Idle /\ mpods = Idle /\ duan = Idle /\ dmsy = Idle /\ basecase = Idle /\ checksum = Idle
    /\ caches \in {CachesNew(n, n, n) : n \in 0..LRUMaxCap}
SpecCaches == CachesInit /\ [][CachesNext]_vars

CachesMovesInit ==
    /\ rh = Idle /\ vec = Idle /\ lru = Idle /\ cht = Idle /\ pods = Idle /\ mpods = Idle /\ duan = Idle /\ dmsy = Idle /\ basecase = Idle /\ checksum = Idle
    /\ caches \in {CachesNew(n, m, 0) : n \in 0..LRUMaxCap, m \in 0..LRUMaxCap}
SpecCachesMoves == CachesMovesInit /\ [][CachesMovesNext]_vars


BaseCaseInit ==
    /\ rh = Idle /\ vec = Idle /\ lru = Idle /\ cht = Idle /\ pods = Idle /\ mpods = Idle /\ duan = Idle /\ dmsy = Idle /\ caches = Idle /\ checksum = Idle
    /\ basecase \in BaseCaseInputs
SpecBaseCase == BaseCaseInit /\ [][BaseCaseNext]_vars


CHTMetricsInit ==
    /\ rh = Idle /\ vec = Idle /\ lru = Idle /\ pods = Idle /\ mpods = Idle /\ duan = Idle /\ dmsy = Idle /\ caches = Idle /\ basecase = Idle /\ checksum = Idle
    /\ cht = CHTMetricsNew
SpecCHTMetrics == CHTMetricsInit /\ [][CHTMetricsNext]_vars


SpecCHTMoves == CHTInit /\ [][CHTMovesNext]_vars


LFInit ==
    /\ rh = Idle /\ vec = Idle /\ lru = Idle /\ pods = Idle /\ mpods = Idle /\ duan = Idle /\ dmsy = Idle /\ caches = Idle /\ basecase = Idle /\ checksum = Idle
    /\ \E variant \in LFVariants, n \in 0..LFMaxBuckets : cht = LFNew(variant, n)

SpecLoadFactor == LFInit /\ [][LFNext]_vars


DiamondInit ==
    /\ rh = Idle /\ vec = Idle /\ lru = Idle /\ cht = Idle /\ pods = Idle /\ mpods = Idle /\ dmsy = Idle /\ caches = Idle /\ basecase = Idle /\ checksum = Idle
    /\ duan \in {DiamondNew(p, order) : p \in DiamondOrders, order \in UnorderedOrders}
SpecDiamond == DiamondInit /\ [][DuanNext]_vars


ChecksumInit ==
    /\ rh = Idle /\ vec = Idle /\ lru = Idle /\ cht = Idle /\ pods = Idle /\ mpods = Idle /\ duan = Idle /\ dmsy = Idle /\ caches = Idle /\ basecase = Idle
    /\ checksum \in {ChecksumNew(n) : n \in -1..ChecksumMaxN}
SpecChecksum == ChecksumInit /\ [][ChecksumNext]_vars


RelaxInit ==
    /\ rh = Idle /\ vec = Idle /\ lru = Idle /\ cht = Idle /\ pods = Idle /\ mpods = Idle /\ dmsy = Idle /\ caches = Idle /\ basecase = Idle /\ checksum = Idle
    /\ duan \in RelaxInputs
SpecRelax == RelaxInit /\ [][RelaxNext]_vars


FindPivotsInit ==
    /\ rh = Idle /\ vec = Idle /\ lru = Idle /\ cht = Idle /\ pods = Idle /\ mpods = Idle /\ dmsy = Idle /\ caches = Idle /\ basecase = Idle /\ checksum = Idle
    /\ duan \in FindPivotsInputs
SpecFindPivots == FindPivotsInit /\ [][FindPivotsNext]_vars


VecPairInit ==
    /\ rh = Idle /\ lru = Idle /\ cht = Idle /\ pods = Idle /\ mpods = Idle /\ duan = Idle /\ dmsy = Idle /\ caches = Idle /\ basecase = Idle /\ checksum = Idle
    /\ vec \in {VecPairNew(t) : t \in BOOLEAN}
SpecVecPair == VecPairInit /\ [][VecPairNext]_vars

====
